---------------------------- MODULE Spec2Model ----------------------------
(***************************************************************************)
(* State-machine model of the ARGO NetCDF ingestion pipeline:              *)
(*   src/utils/indian_ocean_netcdf.py  (IndianOceanArgoProcessor, "IO")    *)
(*   src/utils/netcdf_ingestion.py     (ArgoNetCDFProcessor,      "FTP")   *)
(*   src/one_month_argo_test.py        (the one-month driver)              *)
(*                                                                         *)
(* Numbers are scaled by ten where the source uses one decimal (253 is     *)
(* 25.3); latitudes and longitudes are whole degrees.  Python's 0-based    *)
(* indices i, j are the model's 1-based i, j.                              *)
(***************************************************************************)
EXTENDS Integers, Sequences, FiniteSets, TLC

VARIABLES
    \* ---- extraction / aggregation (process_nc_file, process_all_files)
    variant,          \* which processor runs: "IO" or "FTP"
    files,            \* file_paths: the local datasets handed to process_all_files
    fidx,             \* position of the for-loop over file_paths
    per_file,         \* the DataFrame process_nc_file returned for each file so far
    all_dataframes,   \* process_all_files' list of non-empty DataFrames
    combined,         \* the DataFrame process_all_files returns
    handles,          \* the positions of the files whose dataset handle is open
    ended,            \* how process_nc_file ended for each file so far
    xpc,              \* "idle" | "files" | "opened" | "done"
    \* ---- directory discovery (discover_netcdf_files)
    dcfg,             \* self.config: the year and month range, max_files_per_year
    base_url,         \* argument base_url
    max_files,        \* argument max_files
    year,             \* the loop variable of "for year in range(...)"
    netcdf_files,     \* the list of candidate URLs collected so far
    links,            \* the hrefs of the year listing fetched last (<<>> if it failed)
    added,            \* what the year completed last appended to netcdf_files
    target_months,    \* the months of the current year that are explored
    midx,             \* position of "for month in target_months"
    monthly_files,    \* the files found in the current year's months so far
    fetched,          \* the listing requests issued so far, in order: [url, ok]
    result,           \* the list discover_netcdf_files returns
    dpc,              \* "idle" | "year_loop" | "months" | "returned"
    \* ---- file transfer (_download_file_list, download_profiles_batch)
    tcfg,             \* ArgoConfig.batch_size and max_workers (FTP variant)
    candidates,       \* file_urls, or the file column of the filtered index rows
    disk,             \* the download folder: destination path -> "partial" | "complete"
    run,              \* which invocation of the download step this is (1 or 2)
    tidx,             \* the next candidate to be taken up
    batch_start,      \* first candidate of the current batch (FTP variant)
    inflight,         \* the transfers in progress: candidate -> "connecting" | "writing"
    batch_results,    \* results of the current batch: candidate -> path or None
    downloaded_files, \* the list the download step is building
    attempts,         \* what was done for each candidate: [run, idx, existed, requested, outcome]
    returns,          \* the list each finished invocation returned
    completed,        \* the rows of this invocation in the order their handling ended
    tpc,              \* "idle" | "loop" | "returned"
    \* ---- one ingestion run (run_full_ingestion and its drivers)
    driver,           \* the entry point that started the run
    rcfg,             \* the configuration fields the run reads
    remote,           \* what the sources offer: the rows of the file catalog
    ingestion,        \* which run on this database this is
    rpc,              \* the step the run is about to take
    steps,            \* the steps this run has taken, in order
    filtered_profiles,\* filter_profiles(df_index)
    run_files,        \* the local files the download step returned
    processed_data,   \* process_all_files(downloaded_files)
    db,               \* the three tables of the SQLite database
    db_before,        \* the tables as they were when the run started
    outcomes,         \* what run_full_ingestion returned: nothing yet, or a boolean
    loaded,           \* the first successful run: its files, dataset and tables
    exit_status,      \* the exit status of the driver process, once it ended
    \* ---- one call of download_files_with_fallback
    fb_max_files,     \* its argument max_files
    listings,         \* what each source would list, uncapped
    ifremer_files,    \* what discovery returned for the primary source
    noaa_files,       \* what discovery returned for the secondary source
    remaining,        \* max_files minus the files obtained from the primary
    fb_downloaded,    \* the function's list downloaded_files
    consulted,        \* the discover_netcdf_files calls made: [source, max_files]
    requested,        \* the lists handed to _download_file_list, in order
    fpc,              \* "ifremer" | "ifremer_files" | "noaa" | "noaa_files" | "return" | "returned" | "idle"
    \* ---- two run_full_ingestion executions on one database file
    serialized,       \* whether the caller runs them one after the other
    cfiles,           \* per run, the files its download step returns
    cdata,            \* per run, its processed_data
    cpc,              \* per run, the step it is at
    cdb,              \* the three tables of the database they share
    creturned,        \* per run, what it returned: nothing yet, or a boolean
    cseen             \* per run, argo_profiles as it was when the run returned

xvars == <<variant, files, fidx, per_file, all_dataframes, combined, handles,
           ended, xpc>>
dvars == <<dcfg, base_url, max_files, year, netcdf_files, links, added,
           target_months, midx, monthly_files, fetched, result, dpc>>
tvars == <<tcfg, candidates, disk, run, tidx, batch_start, inflight,
           batch_results, downloaded_files, attempts, returns, completed, tpc>>
rvars == <<driver, rcfg, remote, ingestion, rpc, steps, filtered_profiles,
           run_files, processed_data, db, db_before, outcomes, loaded,
           exit_status>>
fvars == <<fb_max_files, listings, ifremer_files, noaa_files, remaining,
           fb_downloaded, consulted, requested, fpc>>
cvars == <<serialized, cfiles, cdata, cpc, cdb, creturned, cseen>>
vars == <<xvars, dvars, tvars, rvars, fvars, cvars>>

-----------------------------------------------------------------------------
(* Generic helpers *)

SeqsUpTo(S, n) == UNION {[1..k -> S] : k \in 0..n}

Range(s) == {s[k] : k \in DOMAIN s}

\* the elements of s at the positions in I, in order
RECURSIVE Pick(_, _)
Pick(s, I) ==
    IF s = <<>> THEN <<>>
    ELSE Pick(SubSeq(s, 1, Len(s) - 1), I)
         \o (IF Len(s) \in I THEN <<s[Len(s)]>> ELSE <<>>)

RECURSIVE Concat(_)
Concat(ss) == IF ss = <<>> THEN <<>> ELSE Head(ss) \o Concat(Tail(ss))

-----------------------------------------------------------------------------
(* The values a dataset holds *)

\* numpy's missing value.  An ordered comparison with NaN is False in Python;
\* the stand-in is above every value of the model, so that "NaN < 0" is false
\* here too, and every other use is guarded by IsNaN.
NaN == 999999
None == "None"                \* no record key
\* an Optional[Dict] is a sequence of no record (None) or of one record
NoRecord == <<>>
NoAttr == "NoAttr"            \* global attribute platform_number absent
PhEstimate == "8.1+noise"     \* 8.1 + np.random.normal(0, 0.1)

Variants == {"IO", "FTP"}

IsNaN(v) == v = NaN

\* IndianOceanArgoConfig / ArgoConfig: the default bounding box of a run
ConfigOf(v) ==
    IF v = "IO"
    THEN [lat_min |-> 0, lat_max |-> 30, lon_min |-> 50, lon_max |-> 100]
    ELSE [lat_min |-> 10, lat_max |-> 25, lon_min |-> 65, lon_max |-> 85]

\* __post_init__: the default vars_to_keep of each configuration
VarsToKeep(v) ==
    IF v = "IO" THEN <<"TEMP", "PSAL", "DOXY", "PRES">>
    ELSE <<"TEMP", "PSAL", "DOXY">>

QcName(var) == var \o "_QC"

\* the record key a variable populates (PRES populates none)
FieldOf(var) ==
    CASE var = "TEMP" -> "temperature"
      [] var = "PSAL" -> "salinity"
      [] var = "DOXY" -> "dissolved_oxygen"
      [] OTHER -> None

\* record[key] = value
SetField(record, key, value) == (key :> value) @@ record

\* if var == "TEMP": ... elif var == "PSAL": ... elif var == "DOXY": ...
Populate(record, var, value) ==
    IF FieldOf(var) = None THEN record ELSE SetField(record, FieldOf(var), value)

\* pressure[i, j] (2-D) or pressure[j] (1-D, where i is 1)
PresAt(ds, i, j) == IF ds.ndim = 2 THEN ds.pres[i][j] ELSE ds.pres[j]

\* ds[var].values[i, j] (2-D) or ds[var].values[j] (1-D, where i is 1)
ValueAt(ds, var, i, j) ==
    IF var = "PRES" THEN PresAt(ds, i, j)
    ELSE IF ds.ndim = 2 THEN ds.data[var][i][j] ELSE ds.data[var][j]

\* ds[qc_var].values[i, j]
FlagAt(ds, var, i, j) ==
    IF ds.ndim = 2 THEN ds.flag[var][i][j] ELSE ds.flag[var][j]

\* np.isnan(pressure[i, j]) or pressure[i, j] < 0
PressureSkipped(p) == IsNaN(p) \/ p < 0

-----------------------------------------------------------------------------
(* IndianOceanArgoProcessor._extract_record *)

\* the two boxes tested in the other order
IO_Region_SecondFirst(lat_val, lon_val) ==
    IF 75 <= lon_val /\ lon_val <= 95 /\ 5 <= lat_val /\ lat_val <= 25
    THEN "Bay of Bengal"
    ELSE IF 50 <= lon_val /\ lon_val <= 75 /\ 5 <= lat_val /\ lat_val <= 25
    THEN "Arabian Sea"
    ELSE "Indian Ocean"

IO_Region(lat_val, lon_val) ==
    IF 50 <= lon_val /\ lon_val <= 75 /\ 5 <= lat_val /\ lat_val <= 25
    THEN "Arabian Sea"
    ELSE IF 75 <= lon_val /\ lon_val <= 95 /\ 5 <= lat_val /\ lat_val <= 25
    THEN "Bay of Bengal"
    ELSE "Indian Ocean"

\* one pass of "for var in self.config.vars_to_keep" ; acc = [record, valid_vars]
IO_VarStep(ds, i, j, var, acc) ==
    IF var \in ds.vars
    THEN LET value == ValueAt(ds, var, i, j)
         IN  IF ~IsNaN(value)
             THEN [record |-> Populate(acc.record, var, value),
                   valid_vars |-> acc.valid_vars + 1]
             ELSE acc
    ELSE acc

RECURSIVE IO_VarLoop(_, _, _, _, _)
IO_VarLoop(ds, i, j, todo, acc) ==
    IF todo = <<>> THEN acc
    ELSE IO_VarLoop(ds, i, j, Tail(todo), IO_VarStep(ds, i, j, Head(todo), acc))

\* indexed -> first element -> (empty array: .item() raises, caught)
Indexed(arr, i) == IF Len(arr) >= i THEN arr[i] ELSE arr[1]

AddPh(record) ==
    IF "temperature" \in DOMAIN record /\ "salinity" \in DOMAIN record
    THEN SetField(record, "ph", PhEstimate)
    ELSE record

IO_ExtractRecord(ds, i, j, float_id) ==
    IF ds.meta_dim = 0                \* len(lat): TypeError, return None
    THEN NoRecord
    ELSE IF Len(ds.lat) = 0 \/ Len(ds.lon) = 0 \/ Len(ds.time) = 0
    THEN NoRecord
    ELSE IF Len(ds.lat) >= i /\ Len(ds.lon) < i      \* lon[i]: IndexError
    THEN NoRecord
    ELSE
    LET time_val == Indexed(ds.time, i)
        lat_val == Indexed(ds.lat, i)
        lon_val == IF Len(ds.lat) >= i THEN ds.lon[i] ELSE ds.lon[1]
        pres_val == PresAt(ds, i, j)
        base == [float_id |-> float_id, date_time |-> time_val,
                 latitude |-> lat_val, longitude |-> lon_val,
                 pressure |-> pres_val, depth |-> pres_val,
                 region |-> IO_Region(lat_val, lon_val)]
        acc == IO_VarLoop(ds, i, j, VarsToKeep("IO"),
                          [record |-> base, valid_vars |-> 0])
    IN  IF acc.valid_vars > 0 THEN <<AddPh(acc.record)>> ELSE NoRecord

-----------------------------------------------------------------------------
(* IndianOceanArgoProcessor.process_nc_file *)

\* the platform_numbers array, or the global attribute repeated len(lat) times
IO_PlatformNumbers(ds) ==
    IF "PLATFORM_NUMBER" \in ds.vars THEN ds.platform
    ELSE [k \in 1..Len(ds.lat) |->
            IF ds.attr_platform = NoAttr THEN "unknown" ELSE ds.attr_platform]

IO_FloatId(ds, i) ==
    LET platform_numbers == IO_PlatformNumbers(ds)
    IN  IF Len(platform_numbers) >= i THEN platform_numbers[i] ELSE "unknown"

\* rows of the cells in level-then-profile order
RECURSIVE IO_Rows_LevelFirst(_, _)
IO_Rows_LevelFirst(ds, k) ==
    IF k > ds.n_prof * ds.n_levels THEN <<>>
    ELSE LET i == ((k - 1) % ds.n_prof) + 1
             j == ((k - 1) \div ds.n_prof) + 1
             record == IF PressureSkipped(PresAt(ds, i, j)) THEN NoRecord
                       ELSE IO_ExtractRecord(ds, i, j, IO_FloatId(ds, i))
         IN  record \o IO_Rows_LevelFirst(ds, k + 1)

\* rows of the cells k..n_prof*n_levels, in profile-then-level order
RECURSIVE IO_Rows(_, _)
IO_Rows(ds, k) ==
    IF k > ds.n_prof * ds.n_levels THEN <<>>
    ELSE LET i == ((k - 1) \div ds.n_levels) + 1
             j == ((k - 1) % ds.n_levels) + 1
             record == IF PressureSkipped(PresAt(ds, i, j)) THEN NoRecord
                       ELSE IO_ExtractRecord(ds, i, j, IO_FloatId(ds, i))
         IN  record \o IO_Rows(ds, k + 1)

\* The per-profile variables of a file without an N_PROF dimension are 0-d
\* arrays.  They have __len__, and len() of them raises TypeError: at
\* [default_platform] * len(lat) when PLATFORM_NUMBER is absent, at
\* len(platform_numbers) when it is present; the outer except returns no rows.
IO_UnsizedRaises(ds) == ds.meta_dim = 0

\* the arrays a later alias is read from instead of the first one
IO_Resolve_SecondFirst(ds) ==
    [ds EXCEPT
        !.time = IF "TIME" \in ds.vars THEN ds.second.time ELSE @,
        !.lat = IF {"LAT", "LON"} \subseteq ds.vars THEN ds.second.lat ELSE @,
        !.lon = IF {"LAT", "LON"} \subseteq ds.vars THEN ds.second.lon ELSE @,
        !.pres = IF "PRESSURE" \in ds.vars THEN ds.second.pres ELSE @]

\* times, lat, lon, pressure: the arrays of JULD, LATITUDE and LONGITUDE, PRES
\* when the file has them, else those of TIME, LAT and LON, PRESSURE
IO_Resolve(ds) ==
    [ds EXCEPT
        !.time = IF "JULD" \in ds.vars THEN @ ELSE ds.second.time,
        !.lat = IF {"LATITUDE", "LONGITUDE"} \subseteq ds.vars
                THEN @ ELSE ds.second.lat,
        !.lon = IF {"LATITUDE", "LONGITUDE"} \subseteq ds.vars
                THEN @ ELSE ds.second.lon,
        !.pres = IF "PRES" \in ds.vars THEN @ ELSE ds.second.pres]

IO_ProcessNcFile(ds) ==
    IF ~ds.openable THEN <<>>
    ELSE IF ~("JULD" \in ds.vars \/ "TIME" \in ds.vars) THEN <<>>
    ELSE IF ~({"LATITUDE", "LONGITUDE"} \subseteq ds.vars
              \/ {"LAT", "LON"} \subseteq ds.vars) THEN <<>>
    ELSE IF ~("PRES" \in ds.vars \/ "PRESSURE" \in ds.vars) THEN <<>>
    ELSE IF IO_UnsizedRaises(ds) THEN <<>>
    ELSE IF ds.ndim \in {1, 2} THEN IO_Rows(IO_Resolve(ds), 1)
    ELSE <<>>

-----------------------------------------------------------------------------
(* ArgoNetCDFProcessor.process_nc_file *)

FTP_Region(lat_val, lon_val) ==
    IF 65 <= lon_val /\ lon_val <= 75 /\ 15 <= lat_val /\ lat_val <= 25
    THEN "Arabian Sea"
    ELSE IF 75 <= lon_val /\ lon_val <= 85 /\ 10 <= lat_val /\ lat_val <= 20
    THEN "Bay of Bengal"
    ELSE "Indian Ocean"

\* qc_flag in [b'1', b'2']
FTP_QcGood(qc_flag) == qc_flag \in {"1", "2"}

FTP_VarStep(ds, i, j, var, acc) ==
    IF var \in ds.vars
    THEN LET value == ValueAt(ds, var, i, j)
             accepted ==
                 IF QcName(var) \in ds.vars
                 THEN FTP_QcGood(FlagAt(ds, var, i, j)) /\ ~IsNaN(value)
                 ELSE ~IsNaN(value)
         IN  IF accepted
             THEN [record |-> Populate(acc.record, var, value),
                   valid_vars |-> acc.valid_vars + 1]
             ELSE acc
    ELSE acc

RECURSIVE FTP_VarLoop(_, _, _, _, _)
FTP_VarLoop(ds, i, j, todo, acc) ==
    IF todo = <<>> THEN acc
    ELSE FTP_VarLoop(ds, i, j, Tail(todo), FTP_VarStep(ds, i, j, Head(todo), acc))

FTP_ExtractRecord(ds, i, j, float_id) ==
    LET base == [float_id |-> float_id, date_time |-> ds.time[i],
                 latitude |-> ds.lat[i], longitude |-> ds.lon[i],
                 pressure |-> ds.pres[i][j], depth |-> ds.pres[i][j],
                 profile_index |-> i - 1, level_index |-> j - 1,
                 region |-> FTP_Region(ds.lat[i], ds.lon[i])]
        acc == FTP_VarLoop(ds, i, j, VarsToKeep("FTP"),
                           [record |-> base, valid_vars |-> 0])
    IN  IF acc.valid_vars > 0 THEN <<AddPh(acc.record)>> ELSE NoRecord

RECURSIVE FTP_Rows(_, _)
FTP_Rows(ds, k) ==
    IF k > ds.n_prof * ds.n_levels THEN <<>>
    ELSE LET i == ((k - 1) \div ds.n_levels) + 1
             j == ((k - 1) % ds.n_levels) + 1
             record == IF PressureSkipped(ds.pres[i][j]) THEN NoRecord
                       ELSE FTP_ExtractRecord(ds, i, j, ds.platform[1])
         IN  record \o FTP_Rows(ds, k + 1)

\* a KeyError, ValueError or IndexError anywhere inside the try block
FTP_Raises(ds) ==
    \/ ~({"PLATFORM_NUMBER", "JULD", "LATITUDE", "LONGITUDE", "PRES"}
           \subseteq ds.vars)
    \/ Len(ds.platform) # 1                  \* .values.item()
    \/ ds.ndim # 2                           \* ds.dims['N_PROF'], depth[i, j]
    \/ ds.meta_dim = 0                       \* ds.dims['N_PROF'], times[i]
    \/ \E i \in 1..ds.n_prof, j \in 1..ds.n_levels :
          /\ ~PressureSkipped(ds.pres[i][j])
          /\ (Len(ds.time) < i \/ Len(ds.lat) < i \/ Len(ds.lon) < i)

FTP_ProcessNcFile(ds) ==
    IF ~ds.openable THEN <<>>
    ELSE IF FTP_Raises(ds) THEN <<>>
    ELSE FTP_Rows(ds, 1)

ProcessNcFile(v, ds) ==
    IF v = "IO" THEN IO_ProcessNcFile(ds) ELSE FTP_ProcessNcFile(ds)

-----------------------------------------------------------------------------
(* process_all_files *)

InBox(cfg, record) ==
    /\ record.latitude >= cfg.lat_min /\ record.latitude <= cfg.lat_max
    /\ record.longitude >= cfg.lon_min /\ record.longitude <= cfg.lon_max

\* the bounding-box selection of the Indian Ocean variant
IO_GeoFilter(df) == SelectSeq(df, LAMBDA r : InBox(ConfigOf("IO"), r))

\* the FTP variant returns the concatenation as it is
FTP_GeoFilter(df) == df

Combine(v, dfs) ==
    IF dfs = <<>> THEN <<>>
    ELSE IF v = "IO" THEN IO_GeoFilter(Concat(dfs))
    ELSE FTP_GeoFilter(Concat(dfs))

-----------------------------------------------------------------------------
(* The datasets the extractor is run on *)

MaxLevels == 2      \* levels per profile of the multi-cell datasets
MaxProf == 2        \* profiles per file of the multi-cell datasets
MaxFiles == 2       \* files handed to one process_all_files call

OceanVars == {"TEMP", "PSAL", "DOXY"}
CoreVars == {"JULD", "LATITUDE", "LONGITUDE", "PLATFORM_NUMBER"}

Pressures == {NaN, -10, 0, 55}
GoodValue(var) ==
    CASE var = "TEMP" -> 253 [] var = "PSAL" -> 350 [] OTHER -> 2000
QcFlags(var) == IF var = "TEMP" THEN {"1", "2", "4"} ELSE {"1", "4"}

\* what a file holds of one oceanographic variable at one cell
VarStates(var) ==
    {[present |-> FALSE, qc |-> FALSE, value |-> NaN, flag |-> "1"]}
    \cup {[present |-> TRUE, qc |-> FALSE, value |-> x, flag |-> "1"] :
            x \in {NaN, GoodValue(var)}}
    \cup {[present |-> TRUE, qc |-> TRUE, value |-> x, flag |-> f] :
            x \in {NaN, GoodValue(var)}, f \in QcFlags(var)}

\* no array under TIME, LAT, LON, PRESSURE
NoSecond == [time |-> <<>>, lat |-> <<>>, lon |-> <<>>, pres |-> <<>>]

\* a file of one profile and one level
OneCellDs(presName, ndim, p, st, lat, lon) ==
    [openable |-> TRUE,
     vars |-> CoreVars \cup {presName}
              \cup {v \in OceanVars : st[v].present}
              \cup {QcName(v) : v \in {w \in OceanVars : st[w].qc}},
     ndim |-> ndim, n_prof |-> 1, n_levels |-> 1,
     pres |-> IF presName # "PRES" THEN <<>>
              ELSE IF ndim = 2 THEN <<<<p>>>> ELSE <<p>>,
     second |-> [NoSecond EXCEPT
                    !.pres = IF presName = "PRES" THEN <<>>
                             ELSE IF ndim = 2 THEN <<<<p>>>> ELSE <<p>>],
     data |-> [v \in OceanVars |->
                 IF ndim = 2 THEN <<<<st[v].value>>>> ELSE <<st[v].value>>],
     flag |-> [v \in OceanVars |->
                 IF ndim = 2 THEN <<<<st[v].flag>>>> ELSE <<st[v].flag>>],
     meta_dim |-> 1,
     lat |-> <<lat>>, lon |-> <<lon>>, time |-> <<201>>,
     platform |-> <<"2902">>, attr_platform |-> NoAttr]

RichDatasets ==
    {OneCellDs(pn, nd, p, [v \in OceanVars |->
                             CASE v = "TEMP" -> t [] v = "PSAL" -> s [] OTHER -> d],
               15, 70) :
        pn \in {"PRES", "PRESSURE"}, nd \in {1, 2}, p \in Pressures,
        t \in VarStates("TEMP"), s \in VarStates("PSAL"), d \in VarStates("DOXY")}

\* a cell of a multi-cell dataset: pressure missing, TEMP valid, TEMP missing
LeanCells == {"skip", "keep", "drop"}

\* an array of shape (n_prof, n_levels) as it is, or its only row when 1-D
Shaped(ndim, arr) == IF ndim = 2 THEN arr ELSE arr[1]

DeepDs(n_prof, n_levels, ndim, cells, platform) ==
    [openable |-> TRUE,
     vars |-> CoreVars \cup {"PRES", "TEMP"},
     ndim |-> ndim, n_prof |-> n_prof, n_levels |-> n_levels,
     pres |-> Shaped(ndim, [i \in 1..n_prof |-> [j \in 1..n_levels |->
                 IF cells[i][j] = "skip" THEN NaN ELSE 10 * j]]),
     data |-> [v \in OceanVars |->
                 Shaped(ndim, [i \in 1..n_prof |-> [j \in 1..n_levels |->
                     IF v = "TEMP" /\ cells[i][j] = "keep" THEN 250 + i ELSE NaN]])],
     flag |-> [v \in OceanVars |->
                 Shaped(ndim, [i \in 1..n_prof |-> [j \in 1..n_levels |-> "1"]])],
     meta_dim |-> 1, second |-> NoSecond,
     lat |-> [i \in 1..n_prof |-> 10 + i], lon |-> [i \in 1..n_prof |-> 70 + i],
     time |-> [i \in 1..n_prof |-> 200 + i],
     platform |-> platform, attr_platform |-> NoAttr]

\* the multi-cell datasets of one shape
DeepFamily(np, nl) ==
    {DeepDs(np, nl, nd, cells, pf) :
        nd \in (IF np = 1 THEN {1, 2} ELSE {2}),
        cells \in [1..np -> [1..nl -> LeanCells]],
        pf \in {<<"2902">>, [i \in 1..np |-> "2902"]}}

\* <<latitude, longitude>> of the files that differ in place only
Positions == {<<15, 70>>, <<5, 60>>, <<30, 100>>, <<40, 70>>, <<15, 120>>,
              <<15, 75>>}

ValidTemp == [v \in OceanVars |->
                [present |-> v = "TEMP", qc |-> FALSE,
                 value |-> IF v = "TEMP" THEN 253 ELSE NaN, flag |-> "1"]]

ValidTempPsal == [v \in OceanVars |->
                    [present |-> v # "DOXY", qc |-> FALSE,
                     value |-> IF v # "DOXY" THEN GoodValue(v) ELSE NaN,
                     flag |-> "1"]]

Unopenable == [OneCellDs("PRES", 2, 0, ValidTemp, 15, 70) EXCEPT !.openable = FALSE]

GeoFiles ==
    {OneCellDs("PRES", 2, 0, ValidTemp, pos[1], pos[2]) : pos \in Positions}
    \cup {OneCellDs("PRES", 2, NaN, ValidTemp, 15, 70), Unopenable,
          OneCellDs("PRES", 2, 55, ValidTempPsal, 15, 75)}

\* the same single profile in the layout with 1-D pressure: the variables
\* lose the N_PROF axis; the per-profile variables keep it as arrays of
\* length 1, or lose it too and are 0-d
Layout1D(ds) ==
    [ds EXCEPT !.ndim = 1, !.pres = ds.pres[1],
               !.data = [v \in DOMAIN ds.data |-> ds.data[v][1]],
               !.flag = [v \in DOMAIN ds.flag |-> ds.flag[v][1]]]
Layout1DScalar(ds) == [Layout1D(ds) EXCEPT !.meta_dim = 0]

SingleProfiles2D ==
    {d \in UNION {DeepFamily(1, nl) : nl \in 1..MaxLevels} : d.ndim = 2}
    \cup {OneCellDs("PRES", 2, 55, ValidTempPsal, 15, 70)}

\* a single profile in a 1-D layout, followed by the same profile in 2-D
LayoutPairs ==
    {<<Layout1D(d), d>> : d \in SingleProfiles2D}
    \cup {<<Layout1DScalar(d), d>> : d \in SingleProfiles2D}

\* files without the PLATFORM_NUMBER variable, with or without the global
\* attribute; the coordinates are per profile or one shared value
AllKept(n_prof, n_levels) == [i \in 1..n_prof |-> [j \in 1..n_levels |-> "keep"]]

FallbackDs(n_prof, n_levels, attr, shared) ==
    LET ds == DeepDs(n_prof, n_levels, 2, AllKept(n_prof, n_levels), <<>>)
    IN  [ds EXCEPT !.vars = @ \ {"PLATFORM_NUMBER"},
                   !.attr_platform = attr,
                   !.lat = IF shared THEN <<@[1]>> ELSE @,
                   !.lon = IF shared THEN <<@[1]>> ELSE @,
                   !.time = IF shared THEN <<@[1]>> ELSE @]

FallbackDatasets ==
    {FallbackDs(np, nl, attr, shared) :
        np \in 1..MaxProf, nl \in 1..MaxLevels,
        attr \in {"9999", NoAttr}, shared \in BOOLEAN}

\* the names a required field can be stored under
AliasNames == {"JULD", "TIME", "LATITUDE", "LONGITUDE", "LAT", "LON",
               "PRES", "PRESSURE"}

\* a file of one profile and one level with a valid TEMP and PSAL, whose
\* required fields are stored under the given names; the arrays under the
\* second names differ from those under the first names
AliasDs(names) ==
    [OneCellDs("PRES", 2, 5, ValidTempPsal, 15, 70) EXCEPT
        !.vars = (@ \ AliasNames) \cup names,
        !.time = IF "JULD" \in names THEN <<201>> ELSE <<>>,
        !.lat = IF "LATITUDE" \in names THEN <<15>> ELSE <<>>,
        !.lon = IF "LONGITUDE" \in names THEN <<70>> ELSE <<>>,
        !.pres = IF "PRES" \in names THEN <<<<5>>>> ELSE <<>>,
        !.second = [time |-> IF "TIME" \in names THEN <<301>> ELSE <<>>,
                    lat |-> IF "LAT" \in names THEN <<16>> ELSE <<>>,
                    lon |-> IF "LON" \in names THEN <<71>> ELSE <<>>,
                    pres |-> IF "PRESSURE" \in names
                             THEN <<<<55>>>> ELSE <<>>]]

\* the file lists other than the single multi-cell files
FileLists ==
    {<<d>> : d \in RichDatasets \cup FallbackDatasets}
    \cup SeqsUpTo(GeoFiles, MaxFiles)
    \cup LayoutPairs

-----------------------------------------------------------------------------
(* The parts of the pipeline that are not running *)

ExtractorIdle ==
    /\ files = <<>> /\ fidx = 1 /\ per_file = <<>>
    /\ all_dataframes = <<>> /\ combined = <<>> /\ xpc = "idle"
    /\ handles = {} /\ ended = <<>>

ExtractIdle == variant = "IO" /\ ExtractorIdle

TransferIdle ==
    /\ tcfg = [batch_size |-> 5, max_workers |-> 2]
    /\ candidates = <<>> /\ disk = <<>> /\ run = 1 /\ tidx = 1
    /\ batch_start = 1 /\ inflight = <<>> /\ batch_results = <<>>
    /\ downloaded_files = <<>> /\ attempts = {} /\ returns = <<>>
    /\ completed = <<>>
    /\ tpc = "idle"

NoTables == [argo_profiles |-> <<>>, ocean_conditions |-> <<>>,
             agro_bots |-> <<>>]

RunIdle ==
    /\ driver = "none"
    /\ rcfg = [max_profiles |-> 50]
    /\ remote = <<>> /\ ingestion = 1 /\ rpc = "idle" /\ steps = <<>>
    /\ filtered_profiles = <<>> /\ run_files = <<>> /\ processed_data = <<>>
    /\ db = NoTables /\ db_before = NoTables
    /\ outcomes = <<>> /\ loaded = <<>>
    /\ exit_status = "running"

FallbackIdle ==
    /\ fb_max_files = 0
    /\ listings = [ifremer |-> <<>>, noaa |-> <<>>]
    /\ ifremer_files = <<>> /\ noaa_files = <<>> /\ remaining = 0
    /\ fb_downloaded = <<>> /\ consulted = <<>> /\ requested = <<>>
    /\ fpc = "idle"

ConcurrentIdle ==
    /\ serialized = TRUE
    /\ cfiles = <<>> /\ cdata = <<>> /\ cpc = <<>>
    /\ cdb = [argo_profiles |-> <<>>, ocean_conditions |-> <<>>, agro_bots |-> <<>>]
    /\ creturned = <<>> /\ cseen = <<>>

DiscoverIdle ==
    /\ dcfg = [start_year |-> 2024, end_year |-> 2024, start_month |-> 1,
               end_month |-> 1, max_files_per_year |-> 5]
    /\ base_url = "ifremer" /\ max_files = 0 /\ year = 2024
    /\ netcdf_files = <<>> /\ links = <<>> /\ added = <<>>
    /\ target_months = <<>> /\ midx = 1 /\ monthly_files = <<>>
    /\ fetched = <<>> /\ result = <<>> /\ dpc = "idle"

-----------------------------------------------------------------------------
(* process_all_files as a state machine *)

InitExtract ==
    /\ variant \in Variants
    /\ \/ files \in FileLists
       \/ \E names \in SUBSET AliasNames : files = <<AliasDs(names)>>
       \/ \E np \in 1..MaxProf, nl \in 1..MaxLevels :
             files \in {<<d>> : d \in DeepFamily(np, nl)}
    /\ fidx = 1
    /\ per_file = <<>>
    /\ all_dataframes = <<>>
    /\ combined = <<>>
    /\ handles = {} /\ ended = <<>>
    /\ xpc = "files"
    /\ DiscoverIdle
    /\ TransferIdle
    /\ RunIdle
    /\ FallbackIdle
    /\ ConcurrentIdle

\* how the try block of process_nc_file ends on an opened dataset: with an
\* early return because no alias of a required field is present, in the
\* except clause, or at "return df"
HowEnded(v, ds) ==
    IF v = "IO"
    THEN IF \/ ~("JULD" \in ds.vars \/ "TIME" \in ds.vars)
            \/ ~({"LATITUDE", "LONGITUDE"} \subseteq ds.vars
                  \/ {"LAT", "LON"} \subseteq ds.vars)
            \/ ~("PRES" \in ds.vars \/ "PRESSURE" \in ds.vars)
         THEN "missing"
         ELSE IF IO_UnsizedRaises(ds) THEN "raised" ELSE "rows"
    ELSE IF FTP_Raises(ds) THEN "raised" ELSE "rows"

\* a handle that stays open when the try block raised
Finally_UnlessRaised(open, k, how) == IF how = "raised" THEN open ELSE open \ {k}

\* finally: ds.close(), however the try block ended
Finally(open, k, how) == open \ {k}

\* process_nc_file up to the end of its first try block: xr.open_dataset
\* returns a handle, or raises and an empty frame is returned
OpenDataset ==
    /\ xpc = "files"
    /\ fidx <= Len(files)
    /\ IF files[fidx].openable
       THEN /\ handles' = handles \cup {fidx}
            /\ xpc' = "opened"
            /\ UNCHANGED <<fidx, per_file, all_dataframes, ended>>
       ELSE /\ per_file' = Append(per_file, <<>>)
            /\ ended' = Append(ended, "open_failed")
            /\ fidx' = fidx + 1
            /\ UNCHANGED <<handles, all_dataframes, xpc>>
    /\ UNCHANGED <<variant, files, combined>>
    /\ UNCHANGED <<dvars, tvars, rvars, fvars, cvars>>

\* the second try block with its finally clause, the return, and the rest of
\* the pass of "for fpath in file_paths"
ProcessOneFile ==
    /\ xpc = "opened"
    /\ LET df == ProcessNcFile(variant, files[fidx])
           how == HowEnded(variant, files[fidx])
       IN  /\ handles' = Finally(handles, fidx, how)
           /\ ended' = Append(ended, how)
           /\ per_file' = Append(per_file, df)
           /\ all_dataframes' = IF df # <<>> THEN Append(all_dataframes, df)
                                ELSE all_dataframes
    /\ fidx' = fidx + 1
    /\ xpc' = "files"
    /\ UNCHANGED <<variant, files, combined>>
    /\ UNCHANGED <<dvars, tvars, rvars, fvars, cvars>>

\* the code after the loop: concat, bounding-box filter, return
CombineAll ==
    /\ xpc = "files"
    /\ fidx > Len(files)
    /\ combined' = Combine(variant, all_dataframes)
    /\ xpc' = "done"
    /\ UNCHANGED <<variant, files, fidx, per_file, all_dataframes, handles, ended>>
    /\ UNCHANGED <<dvars, tvars, rvars, fvars, cvars>>

NextExtract == OpenDataset \/ ProcessOneFile \/ CombineAll

SpecExtract == InitExtract /\ [][NextExtract]_vars

-----------------------------------------------------------------------------
(* Claims on extraction and aggregation *)

OceanFields == {"temperature", "salinity", "dissolved_oxygen"}

\* the records process_nc_file has returned so far
Returned == UNION {Range(per_file[k]) : k \in DOMAIN per_file}

\* C1: every record returned by process_nc_file has a pressure that is present
\* and >= 0 and has at least one of temperature, salinity, dissolved_oxygen.
C1_RetentionInvariant ==
    \A r \in Returned :
        /\ ~IsNaN(r.pressure)
        /\ r.pressure >= 0
        /\ OceanFields \cap DOMAIN r # {}

\* C2: a variable that has a VAR_QC flag populates its field of a record only
\* from a cell whose flag is '1' or '2'; without a QC variable any non-missing
\* value is accepted.
C2_QcGating ==
    \A k \in DOMAIN per_file : \A r \in Range(per_file[k]) : \A var \in OceanVars :
        FieldOf(var) \in DOMAIN r =>
            \E i \in 1..files[k].n_prof, j \in 1..files[k].n_levels :
                /\ ValueAt(files[k], var, i, j) = r[FieldOf(var)]
                /\ PresAt(IO_Resolve(files[k]), i, j) = r.pressure
                /\ ~IsNaN(ValueAt(files[k], var, i, j))
                /\ QcName(var) \in files[k].vars
                      => FlagAt(files[k], var, i, j) \in {"1", "2"}

\* C3: the dataset process_all_files returns holds exactly the records that
\* per-file extraction retained and that lie inside the configured box.
C3_AggregationFilter ==
    xpc = "done" =>
        \A r \in Returned \cup Range(combined) :
            r \in Range(combined) <=> (r \in Returned /\ InBox(ConfigOf(variant), r))

\* b is the layout with 2-D pressure of shape 1 x N of the single profile
\* that a holds with 1-D pressure of length N
SameProfile(a, b) ==
    /\ a.ndim = 1 /\ b.ndim = 2 /\ b.n_prof = 1 /\ a.n_levels = b.n_levels
    /\ a.vars = b.vars /\ a.openable /\ b.openable
    /\ b.pres = <<a.pres>>
    /\ \A v \in OceanVars : b.data[v] = <<a.data[v]>> /\ b.flag[v] = <<a.flag[v]>>
    /\ a.lat = b.lat /\ a.lon = b.lon /\ a.time = b.time
    /\ a.platform = b.platform /\ a.attr_platform = b.attr_platform

\* both layouts of a profile have been extracted by the Indian Ocean variant
LayoutsExtracted ==
    /\ variant = "IO" /\ Len(files) = 2 /\ Len(per_file) = 2
    /\ SameProfile(files[1], files[2])

\* C11: the layout with 1-D pressure and the equivalent layout with 2-D
\* pressure of shape 1 x N yield the same sequence of records.
C11_ShapeInvariance ==
    LayoutsExtracted => per_file[1] = per_file[2]

\* C11 where the per-profile variables of the 1-D layout are arrays of
\* length 1: the two layouts yield the same sequence of records.
C11_ShapeInvarianceSized ==
    (LayoutsExtracted /\ files[1].meta_dim = 1) => per_file[1] = per_file[2]

C11_SizedWitness ==
    /\ LayoutsExtracted /\ files[1].meta_dim = 1
    /\ Len(per_file[1]) = MaxLevels

\* C12: every record of a file that has no PLATFORM_NUMBER variable but has
\* the global attribute platform_number carries the attribute as float_id,
\* and a float_id of "unknown" means that the file has neither of them.
C12_PlatformFallback ==
    variant = "IO" =>
        \A k \in DOMAIN per_file : \A r \in Range(per_file[k]) :
            /\ ("PLATFORM_NUMBER" \notin files[k].vars
                    /\ files[k].attr_platform # NoAttr)
                  => r.float_id = files[k].attr_platform
            /\ r.float_id = "unknown"
                  => ("PLATFORM_NUMBER" \notin files[k].vars
                         /\ files[k].attr_platform = NoAttr)

\* C12 for files whose latitude array has one entry per profile
C12_PlatformFallbackPerProfile ==
    variant = "IO" =>
        \A k \in DOMAIN per_file : \A r \in Range(per_file[k]) :
            ("PLATFORM_NUMBER" \notin files[k].vars
                /\ files[k].attr_platform # NoAttr
                /\ Len(files[k].lat) >= files[k].n_prof)
              => r.float_id = files[k].attr_platform

C12_PerProfileWitness ==
    /\ variant = "IO" /\ Len(per_file) = 1
    /\ "PLATFORM_NUMBER" \notin files[1].vars
    /\ files[1].attr_platform = "9999"
    /\ files[1].n_prof = MaxProf /\ Len(files[1].lat) = MaxProf
    /\ Len(per_file[1]) = MaxProf * MaxLevels

\* the named boxes of each variant, in the order they are tested
RegionBoxes(v) ==
    IF v = "IO"
    THEN <<[name |-> "Arabian Sea", lon_lo |-> 50, lon_hi |-> 75,
            lat_lo |-> 5, lat_hi |-> 25],
           [name |-> "Bay of Bengal", lon_lo |-> 75, lon_hi |-> 95,
            lat_lo |-> 5, lat_hi |-> 25]>>
    ELSE <<[name |-> "Arabian Sea", lon_lo |-> 65, lon_hi |-> 75,
            lat_lo |-> 15, lat_hi |-> 25],
           [name |-> "Bay of Bengal", lon_lo |-> 75, lon_hi |-> 85,
            lat_lo |-> 10, lat_hi |-> 20]>>

InRegionBox(b, lat, lon) ==
    b.lon_lo <= lon /\ lon <= b.lon_hi /\ b.lat_lo <= lat /\ lat <= b.lat_hi

\* C13: the region of a record is decided by its latitude and longitude
\* alone: it is the name of the first of the two boxes that holds the
\* position, "Indian Ocean" when neither does; records of equal position
\* have equal regions.
C13_RegionPurity ==
    /\ \A r \in Returned :
          LET b == RegionBoxes(variant)
          IN  /\ r.region \in {"Arabian Sea", "Bay of Bengal", "Indian Ocean"}
              /\ InRegionBox(b[1], r.latitude, r.longitude) => r.region = b[1].name
              /\ (~InRegionBox(b[1], r.latitude, r.longitude)
                     /\ InRegionBox(b[2], r.latitude, r.longitude))
                    => r.region = b[2].name
              /\ (~InRegionBox(b[1], r.latitude, r.longitude)
                     /\ ~InRegionBox(b[2], r.latitude, r.longitude))
                    => r.region = "Indian Ocean"
    /\ \A r1, r2 \in Returned :
          (r1.latitude = r2.latitude /\ r1.longitude = r2.longitude)
              => r1.region = r2.region

\* two records that differ in pressure and salinity lie at one position which
\* is on the edge that the two boxes share
C13_Witness ==
    \E r1, r2 \in Returned :
        /\ r1.latitude = r2.latitude /\ r1.longitude = r2.longitude
        /\ r1.pressure # r2.pressure
        /\ "salinity" \in DOMAIN r1 /\ "salinity" \notin DOMAIN r2
        /\ InRegionBox(RegionBoxes(variant)[1], r1.latitude, r1.longitude)
        /\ InRegionBox(RegionBoxes(variant)[2], r1.latitude, r1.longitude)

\* the profiles of the file have increasing times and the levels of each
\* profile increasing pressures, so that a record tells its cell
OrderedCells(ds) ==
    /\ ds.openable /\ ds.meta_dim = 1 /\ Len(ds.time) = ds.n_prof
    /\ \A i \in 1..(ds.n_prof - 1) : ds.time[i] < ds.time[i + 1]
    /\ \A i \in 1..ds.n_prof : \A j, l \in 1..ds.n_levels :
          (j < l /\ ~IsNaN(PresAt(ds, i, j)) /\ ~IsNaN(PresAt(ds, i, l)))
              => PresAt(ds, i, j) < PresAt(ds, i, l)

CellBefore(r, q) ==
    \/ r.date_time < q.date_time
    \/ r.date_time = q.date_time /\ r.pressure < q.pressure

Failed(k) == ended[k] \in {"open_failed", "raised"}

\* C23 (per-file isolation and order): process_all_files goes through every
\* file whatever fails; a file that cannot be opened or raises during the
\* extraction contributes no record; the frames that are concatenated are
\* those of the other files in file order, and the records of a file are in
\* profile-then-level order.
C23_IsolationAndOrder ==
    /\ \A k \in DOMAIN per_file : Failed(k) => per_file[k] = <<>>
    /\ Concat(all_dataframes) = Concat(per_file)
    /\ all_dataframes =
          Pick(per_file, {k \in DOMAIN per_file : per_file[k] # <<>>})
    /\ xpc = "done" => Len(per_file) = Len(files)
    /\ \A k \in DOMAIN per_file :
          OrderedCells(files[k]) =>
              \A p, q \in DOMAIN per_file[k] :
                  p < q => CellBefore(per_file[k][p], per_file[k][q])

\* a list whose first file cannot be opened has been processed to the end,
\* and the records of the second file are the whole result
C23_Witness ==
    /\ xpc = "done" /\ Len(files) = 2
    /\ ended = <<"open_failed", "rows">>
    /\ per_file[2] # <<>> /\ all_dataframes = <<per_file[2]>>

\* a file of two profiles and two levels has yielded its four records
C23_OrderWitness ==
    /\ xpc = "done" /\ Len(files) = 1 /\ OrderedCells(files[1])
    /\ files[1].n_prof = 2 /\ files[1].n_levels = 2 /\ Len(per_file[1]) = 4

\* C22 (dataset handle discipline): at most one dataset handle is open at any
\* point, and only that of the file being extracted; once process_nc_file has
\* returned for a file it opened - with rows, with nothing because a required
\* field is missing, or after an exception in the extraction - the handle is
\* closed.
C22_HandleDiscipline ==
    /\ Cardinality(handles) <= 1
    /\ handles \subseteq {fidx}
    /\ handles # {} => xpc = "opened"
    /\ \A k \in DOMAIN per_file : k \notin handles
    /\ DOMAIN ended = DOMAIN per_file

\* the first file raised inside the extraction and was returned with its
\* handle closed; the handle of the second file is the only one open
C22_Witness ==
    /\ Len(files) = 2 /\ ended = <<"raised">> /\ per_file = <<(<<>>)>>
    /\ handles = {2} /\ xpc = "opened"

------------------------------------------------------------------------\* the file has the field under one of its names
HasTime(ds) == "JULD" \in ds.vars \/ "TIME" \in ds.vars

HasCoordinates(ds) ==
    {"LATITUDE", "LONGITUDE"} \subseteq ds.vars \/ {"LAT", "LON"} \subseteq ds.vars

HasPressure(ds) == "PRES" \in ds.vars \/ "PRESSURE" \in ds.vars

\* the array of the first alias present
FirstTime(ds) == IF "JULD" \in ds.vars THEN ds.time ELSE ds.second.time

FirstLat(ds) ==
    IF {"LATITUDE", "LONGITUDE"} \subseteq ds.vars THEN ds.lat ELSE ds.second.lat

FirstLon(ds) ==
    IF {"LATITUDE", "LONGITUDE"} \subseteq ds.vars THEN ds.lon ELSE ds.second.lon

FirstPres(ds) == IF "PRES" \in ds.vars THEN ds.pres ELSE ds.second.pres

\* a file of one valid cell that has every required field under some name
OneValidCell(ds) ==
    /\ ds.openable /\ ds.ndim = 2 /\ ds.meta_dim = 1
    /\ ds.n_prof = 1 /\ ds.n_levels = 1
    /\ "PLATFORM_NUMBER" \in ds.vars /\ Len(ds.platform) = 1
    /\ HasTime(ds) /\ HasCoordinates(ds) /\ HasPressure(ds)
    /\ ~PressureSkipped(FirstPres(ds)[1][1])
    /\ "TEMP" \in ds.vars /\ "TEMP_QC" \notin ds.vars
    /\ ds.data["TEMP"][1][1] # NaN

\* some required field is stored under its second name only
SecondOnly(ds) ==
    \/ "JULD" \notin ds.vars /\ "TIME" \in ds.vars
    \/ ~({"LATITUDE", "LONGITUDE"} \subseteq ds.vars)
          /\ {"LAT", "LON"} \subseteq ds.vars
    \/ "PRES" \notin ds.vars /\ "PRESSURE" \in ds.vars

\* the three parts of the alias rule, for the files of the given variants
AliasRule(V) ==
    variant \in V =>
    \A k \in DOMAIN per_file :
        LET ds == files[k] IN
        /\ ~(HasTime(ds) /\ HasCoordinates(ds) /\ HasPressure(ds))
               => per_file[k] = <<>>
        /\ \A n \in DOMAIN per_file[k] :
               LET r == per_file[k][n] IN
               /\ r.date_time \in Range(FirstTime(ds))
               /\ r.latitude \in Range(FirstLat(ds))
               /\ r.longitude \in Range(FirstLon(ds))
               /\ \E i \in DOMAIN FirstPres(ds) :
                      r.pressure \in
                         (IF ds.ndim = 2 THEN Range(FirstPres(ds)[i])
                          ELSE {FirstPres(ds)[i]})
        /\ OneValidCell(ds) => per_file[k] # <<>>

\* C24: time is JULD else TIME, the coordinates are LATITUDE and LONGITUDE
\* else LAT and LON, pressure is PRES else PRESSURE, the first alias present
\* being the one read; a file lacking every alias of a required field yields
\* zero records; a file with a required field under its second alias only is
\* still extracted.
C24_AliasResolution == AliasRule(Variants)

\* the same for IndianOceanArgoProcessor alone
C24_AliasResolutionIO == AliasRule({"IO"})

\* a file with time, coordinates and pressure under both names, and a file
\* with all three under the second names only, each extracted by IO
C24_IOWitness ==
    /\ variant = "IO" /\ Len(per_file) = 1 /\ Len(files) = 1
    /\ OneValidCell(files[1]) /\ SecondOnly(files[1])
    /\ per_file[1] # <<>>
    /\ per_file[1][1].date_time = 301 /\ per_file[1][1].pressure = 55

-----
(* Strings the discovery code inspects, as sequences of characters *)

StartsWith(str, prefix) ==
    Len(str) >= Len(prefix) /\ SubSeq(str, 1, Len(prefix)) = prefix

EndsWith(str, suffix) ==
    Len(str) >= Len(suffix)
    /\ SubSeq(str, Len(str) - Len(suffix) + 1, Len(str)) = suffix

\* str.rstrip('/')
RECURSIVE RStripSlash(_)
RStripSlash(str) ==
    IF str # <<>> /\ str[Len(str)] = "/"
    THEN RStripSlash(SubSeq(str, 1, Len(str) - 1))
    ELSE str

Digits == <<"0", "1", "2", "3", "4", "5", "6", "7", "8", "9">>

\* f"{month_num:02d}" for a month number below 100
MonthStr(month_num) == <<Digits[(month_num \div 10) + 1], Digits[(month_num % 10) + 1]>>

\* re.match(r'^(0[1-9]|1[0-2])/$', href)
MatchesMonthPattern(href) ==
    /\ Len(href) = 3
    /\ href[3] = "/"
    /\ \/ href[1] = "0" /\ href[2] \in {Digits[k] : k \in 2..10}
       \/ href[1] = "1" /\ href[2] \in {"0", "1", "2"}

\* mutant: the slice is forgotten
Truncate_NoCap(s, n) == s

\* s[:n] for n >= 0
Truncate(s, n) == SubSeq(s, 1, IF Len(s) < n THEN Len(s) ELSE n)

\* urljoin(base_url, f"{year}/"), urljoin(year_url, f"{month}/"),
\* urljoin(dir_url, href) for a relative file name: the URL of a directory or
\* of a file in it, by its parts (month and name are <<>> when absent)
YearUrl(base, y) == [base |-> base, year |-> y, month |-> <<>>, name |-> <<>>]
MonthUrl(year_url, month) == [year_url EXCEPT !.month = month]
FileUrl(dir_url, href) == [dir_url EXCEPT !.name = href]

-----------------------------------------------------------------------------
(* discover_netcdf_files: pure parts *)

\* mutant: the parent-link test is forgotten
YearLinkSkipped_EmptyOnly(href) == href = <<>>

\* if not href or href.startswith('..'): continue
YearLinkSkipped(href) == href = <<>> \/ StartsWith(href, <<".", ".">>)

YearLinkIsFile(href) == EndsWith(href, <<".", "n", "c">>)

YearLinkIsMonthDir(href) == EndsWith(href, <<"/">>) /\ MatchesMonthPattern(href)

\* the loop "for link in links" of a year listing; acc = [year_files, monthly_dirs]
RECURSIVE YearScan(_, _, _)
YearScan(todo, year_url, acc) ==
    IF todo = <<>> THEN acc
    ELSE LET href == Head(todo)
             next ==
                 IF YearLinkSkipped(href) THEN acc
                 ELSE IF YearLinkIsFile(href)
                 THEN [acc EXCEPT !.year_files = Append(@, FileUrl(year_url, href))]
                 ELSE IF YearLinkIsMonthDir(href)
                 THEN [acc EXCEPT !.monthly_dirs = Append(@, RStripSlash(href))]
                 ELSE acc
         IN  YearScan(Tail(todo), year_url, next)

\* if len(year_files) > max_files_per_year: year_files = year_files[:max_files_per_year]
LimitPerYear(cfg, year_files) ==
    IF Len(year_files) > cfg.max_files_per_year
    THEN Truncate(year_files, cfg.max_files_per_year)
    ELSE year_files

\* for month_num in range(start_month, end_month + 1): if month_str in monthly_dirs
RECURSIVE TargetMonthsFrom(_, _, _)
TargetMonthsFrom(cfg, monthly_dirs, month_num) ==
    IF month_num > cfg.end_month THEN <<>>
    ELSE (IF MonthStr(month_num) \in Range(monthly_dirs)
          THEN <<MonthStr(month_num)>> ELSE <<>>)
         \o TargetMonthsFrom(cfg, monthly_dirs, month_num + 1)

\* mutant: every month directory of the listing is explored
TargetMonths_AllListed(cfg, monthly_dirs) == monthly_dirs

\* mutant: the configured months are explored in listing order
TargetMonths_ListingOrder(cfg, monthly_dirs) ==
    SelectSeq(monthly_dirs,
              LAMBDA d : \E m \in cfg.start_month..cfg.end_month : MonthStr(m) = d)

TargetMonths(cfg, monthly_dirs) == TargetMonthsFrom(cfg, monthly_dirs, cfg.start_month)

\* month_href and month_href.endswith('.nc') and not month_href.startswith('..')
MonthLinkIsFile(month_href) ==
    /\ month_href # <<>>
    /\ EndsWith(month_href, <<".", "n", "c">>)
    /\ ~StartsWith(month_href, <<".", ".">>)

\* the loop "for month_link in month_links", which breaks at max_files_per_year
RECURSIVE MonthScan(_, _, _, _)
MonthScan(todo, month_url, cap, month_file_count) ==
    IF todo = <<>> THEN <<>>
    ELSE IF MonthLinkIsFile(Head(todo))
    THEN IF month_file_count >= cap THEN <<>>
         ELSE <<FileUrl(month_url, Head(todo))>>
              \o MonthScan(Tail(todo), month_url, cap, month_file_count + 1)
    ELSE MonthScan(Tail(todo), month_url, cap, month_file_count)

-----------------------------------------------------------------------------
(* The remote directory listings and the configurations of discovery *)

MaxAnchors == 2     \* anchors of a generated directory listing

A_nc == <<"A", ".", "n", "c">>
B_nc == <<"B", ".", "n", "c">>
X_nc == <<"X", ".", "n", "c">>
Y_nc == <<"Y", ".", "n", "c">>
Readme == <<"r", "e", "a", "d", "m", "e", ".", "t", "x", "t">>
ParentLink == <<".", ".", "/">>
UpNc == <<".", ".", "/", "u", "p", ".", "n", "c">>
Dir01 == <<"0", "1", "/">>
Dir02 == <<"0", "2", "/">>
Dir03 == <<"0", "3", "/">>
Dir13 == <<"1", "3", "/">>

YearHrefs == {A_nc, Readme, ParentLink, Dir01, Dir02}
MonthHrefs == {X_nc, Readme, ParentLink}

YearListings ==
    SeqsUpTo(YearHrefs, MaxAnchors)
    \cup {<<A_nc, B_nc, Readme, ParentLink>>,      \* the flat scenario
          <<Dir01, Dir02, Dir03>>,                 \* the nested scenario
          <<A_nc, B_nc, Dir01>>,                   \* direct files and a month
          <<Dir02, Dir01, Dir13>>,                 \* months out of order
          <<UpNc, <<>>, B_nc>>}

MonthListings ==
    SeqsUpTo(MonthHrefs, MaxAnchors)
    \cup {<<X_nc, Y_nc>>, <<UpNc, Y_nc, X_nc, Readme>>}

DiscoverConfigs ==
    [start_year : {2024}, end_year : {2024, 2025},
     start_month : {1}, end_month : {1, 2},
     max_files_per_year : {1, 2, 5}]

MaxFilesArgs == {0, 1, 3, 10}

-----------------------------------------------------------------------------
(* discover_netcdf_files as a state machine: one step per listing request *)

InitDiscover ==
    /\ ExtractIdle
    /\ dcfg \in DiscoverConfigs
    /\ base_url = "ifremer"
    /\ max_files \in MaxFilesArgs
    /\ year = dcfg.start_year
    /\ netcdf_files = <<>>
    /\ links = <<>>
    /\ added = <<>>
    /\ target_months = <<>>
    /\ midx = 1
    /\ monthly_files = <<>>
    /\ fetched = <<>>
    /\ result = <<>>
    /\ dpc = "year_loop"
    /\ TransferIdle
    /\ RunIdle
    /\ FallbackIdle
    /\ ConcurrentIdle

AtYear ==
    /\ dpc = "year_loop"
    /\ year <= dcfg.end_year
    /\ ~(Len(netcdf_files) >= max_files)

\* mutant: a failed year listing ends discovery
YearFetchFails_Abort ==
    /\ AtYear
    /\ fetched' = Append(fetched, [url |-> YearUrl(base_url, year), ok |-> FALSE])
    /\ links' = <<>>
    /\ added' = <<>>
    /\ result' = Truncate(netcdf_files, max_files)
    /\ dpc' = "returned"
    /\ UNCHANGED <<dcfg, base_url, max_files, year, netcdf_files, target_months,
                   midx, monthly_files>>
    /\ UNCHANGED <<xvars, tvars, rvars, fvars, cvars>>

\* requests.get(year_url) or raise_for_status() raises: warning, continue
YearFetchFails ==
    /\ AtYear
    /\ fetched' = Append(fetched, [url |-> YearUrl(base_url, year), ok |-> FALSE])
    /\ links' = <<>>
    /\ added' = <<>>
    /\ year' = year + 1
    /\ UNCHANGED <<dcfg, base_url, max_files, netcdf_files, target_months, midx,
                   monthly_files, result, dpc>>
    /\ UNCHANGED <<xvars, tvars, rvars, fvars, cvars>>

\* the year listing is read: direct files, else month directories, else nothing
YearFetchOk ==
    /\ AtYear
    /\ \E listing \in YearListings :
        LET year_url == YearUrl(base_url, year)
            scan == YearScan(listing, year_url,
                             [year_files |-> <<>>, monthly_dirs |-> <<>>])
            year_files == LimitPerYear(dcfg, scan.year_files)
        IN  /\ fetched' = Append(fetched, [url |-> year_url, ok |-> TRUE])
            /\ links' = listing
            /\ IF scan.year_files # <<>>
               THEN /\ netcdf_files' = netcdf_files \o year_files
                    /\ added' = year_files
                    /\ year' = year + 1
                    /\ UNCHANGED <<target_months, midx, monthly_files, dpc>>
               ELSE IF scan.monthly_dirs # <<>>
               THEN /\ target_months' = TargetMonths(dcfg, scan.monthly_dirs)
                    /\ midx' = 1
                    /\ monthly_files' = <<>>
                    /\ dpc' = "months"
                    /\ UNCHANGED <<netcdf_files, added, year>>
               ELSE /\ added' = <<>>
                    /\ year' = year + 1
                    /\ UNCHANGED <<netcdf_files, target_months, midx,
                                   monthly_files, dpc>>
    /\ UNCHANGED <<dcfg, base_url, max_files, result>>
    /\ UNCHANGED <<xvars, tvars, rvars, fvars, cvars>>

AtMonth == dpc = "months" /\ midx <= Len(target_months)

\* requests.get(month_url) or raise_for_status() raises: warning, continue
MonthFetchFails ==
    /\ AtMonth
    /\ fetched' = Append(fetched,
           [url |-> MonthUrl(YearUrl(base_url, year), target_months[midx]),
            ok |-> FALSE])
    /\ midx' = midx + 1
    /\ UNCHANGED <<dcfg, base_url, max_files, year, netcdf_files, links, added,
                   target_months, monthly_files, result, dpc>>
    /\ UNCHANGED <<xvars, tvars, rvars, fvars, cvars>>

MonthFetchOk ==
    /\ AtMonth
    /\ \E listing \in MonthListings :
        LET month_url == MonthUrl(YearUrl(base_url, year), target_months[midx])
        IN  /\ fetched' = Append(fetched, [url |-> month_url, ok |-> TRUE])
            /\ monthly_files' = monthly_files
                   \o MonthScan(listing, month_url, dcfg.max_files_per_year, 0)
    /\ midx' = midx + 1
    /\ UNCHANGED <<dcfg, base_url, max_files, year, netcdf_files, links, added,
                   target_months, result, dpc>>
    /\ UNCHANGED <<xvars, tvars, rvars, fvars, cvars>>

\* after the loop over target_months: limit per year, extend, next year
MonthsDone ==
    /\ dpc = "months"
    /\ midx > Len(target_months)
    /\ LET limited == LimitPerYear(dcfg, monthly_files)
       IN  /\ netcdf_files' = netcdf_files \o limited
           /\ added' = limited
    /\ year' = year + 1
    /\ dpc' = "year_loop"
    /\ UNCHANGED <<dcfg, base_url, max_files, links, target_months, midx,
                   monthly_files, fetched, result>>
    /\ UNCHANGED <<xvars, tvars, rvars, fvars, cvars>>

\* the loop over the years ends or breaks: return netcdf_files[:max_files]
DiscoverReturn ==
    /\ dpc = "year_loop"
    /\ ~AtYear
    /\ result' = Truncate(netcdf_files, max_files)
    /\ dpc' = "returned"
    /\ UNCHANGED <<dcfg, base_url, max_files, year, netcdf_files, links, added,
                   target_months, midx, monthly_files, fetched>>
    /\ UNCHANGED <<xvars, tvars, rvars, fvars, cvars>>

NextDiscover ==
    \/ YearFetchFails
    \/ YearFetchOk
    \/ MonthFetchFails
    \/ MonthFetchOk
    \/ MonthsDone
    \/ DiscoverReturn

SpecDiscover == InitDiscover /\ [][NextDiscover]_vars

-----------------------------------------------------------------------------
(* Claims on discovery *)

\* an anchor the specification counts as a candidate: a .nc name that is not
\* the parent link
NcAnchor(href) ==
    /\ Len(href) >= 3
    /\ <<href[Len(href) - 2], href[Len(href) - 1], href[Len(href)]>> = <<".", "n", "c">>
    /\ ~(href[1] = "." /\ href[2] = ".")

\* the month subdirectory anchors "01/" .. "12/"
MonthAnchor(m) == MonthStr(m) \o <<"/">>
HasMonthAnchor(listing) == \E m \in 1..12 : MonthAnchor(m) \in Range(listing)
HasNcAnchor(listing) == \E k \in DOMAIN listing : NcAnchor(listing[k])

\* the configured months that a listing names
ListedTargetMonths(listing) ==
    {m \in dcfg.start_month..dcfg.end_month : MonthAnchor(m) \in Range(listing)}

Requested(url) == \E k \in DOMAIN fetched : fetched[k].url = url
RequestedOk(url) == \E k \in DOMAIN fetched : fetched[k].url = url /\ fetched[k].ok

\* a year has been dealt with, and links and added are those of year - 1
YearCompleted == dpc \in {"year_loop", "returned"} /\ year > dcfg.start_year
CompletedYearUrl == YearUrl(base_url, year - 1)

\* C4: discover_netcdf_files returns at most max_files candidate URLs.
C4_DiscoverCap == dpc = "returned" => Len(result) <= max_files

\* more candidates were collected than the cap allows, and the cap was applied
C4_Witness ==
    /\ dpc = "returned"
    /\ max_files > 0
    /\ Len(netcdf_files) > max_files
    /\ Len(result) = max_files
    /\ \E k \in DOMAIN fetched : ~fetched[k].ok

\* a step in which a listing request fails
FailedFetchStep ==
    /\ Len(fetched') = Len(fetched) + 1
    /\ ~fetched'[Len(fetched')].ok

\* every year of the range was requested, unless the candidates of the years
\* before it had reached the cap
C5_YearsVisited ==
    dpc = "returned" =>
        \A y \in dcfg.start_year..dcfg.end_year :
            \/ Requested(YearUrl(base_url, y))
            \/ Cardinality({k \in DOMAIN netcdf_files : netcdf_files[k].year < y})
                  >= max_files

\* every configured month that a nested year listing names was requested
C5_MonthsVisited ==
    (YearCompleted /\ RequestedOk(CompletedYearUrl) /\ ~HasNcAnchor(links)) =>
        \A m \in ListedTargetMonths(links) :
            Requested(MonthUrl(CompletedYearUrl, MonthStr(m)))

\* C5: a failed year or month listing contributes nothing and stops nothing:
\* the candidates collected before are kept, the later months and years are
\* still requested (until the cap is reached), and discovery goes on to return.
C5_FaultIsolation ==
    /\ [](C5_YearsVisited /\ C5_MonthsVisited)
    /\ [][/\ FailedFetchStep =>
                /\ netcdf_files' = netcdf_files
                /\ monthly_files' = monthly_files
                /\ dpc' \in {"year_loop", "months"}
          /\ Len(netcdf_files') >= Len(netcdf_files)
          /\ SubSeq(netcdf_files', 1, Len(netcdf_files)) = netcdf_files]_vars

\* a request failed and a later request still supplied a returned candidate
C5_Witness ==
    /\ dpc = "returned"
    /\ \E k, l \in DOMAIN fetched :
        /\ k < l
        /\ ~fetched[k].ok /\ fetched[k].url.month # <<>>
        /\ fetched[l].ok
        /\ \E f \in Range(result) :
              f.year = fetched[l].url.year /\ f.month = fetched[l].url.month
    /\ \E k \in DOMAIN fetched : ~fetched[k].ok /\ fetched[k].url.month = <<>>

\* C6: a year listing without month subdirectories contributes exactly its
\* .nc anchors that are not the parent link, resolved against the year URL,
\* in listing order, cut to the first max_files_per_year.
C6_FlatListing ==
    (YearCompleted /\ RequestedOk(CompletedYearUrl) /\ ~HasMonthAnchor(links)) =>
        LET anchors == SelectSeq(links, NcAnchor)
            n == IF Len(anchors) < dcfg.max_files_per_year
                 THEN Len(anchors) ELSE dcfg.max_files_per_year
        IN  added = [k \in 1..n |->
                       [base |-> base_url, year |-> year - 1, month |-> <<>>,
                        name |-> anchors[k]]]

\* the scenario: A.nc, B.nc, readme.txt, ../ with max_files = 10
C6_Witness ==
    /\ dpc = "returned"
    /\ max_files = 10
    /\ links = <<A_nc, B_nc, Readme, ParentLink>>
    /\ result = <<[base |-> base_url, year |-> 2024, month |-> <<>>, name |-> A_nc],
                  [base |-> base_url, year |-> 2024, month |-> <<>>, name |-> B_nc]>>

\* the year whose listing is in links
ListingYear == IF dpc = "months" THEN year ELSE year - 1

\* C7: a month listing is requested only for a month inside
\* [start_month, end_month] that the year listing names, and only such a
\* month contributes candidates.
C7_MonthFilter ==
    /\ \A k \in DOMAIN fetched :
          fetched[k].url.month # <<>> =>
              /\ \E m \in dcfg.start_month..dcfg.end_month :
                    fetched[k].url.month = MonthStr(m)
              /\ fetched[k].url.year = ListingYear =>
                    (fetched[k].url.month \o <<"/">>) \in Range(links)
    /\ \A f \in Range(netcdf_files) \cup Range(monthly_files) \cup Range(result) :
          f.month # <<>> =>
              /\ \E m \in dcfg.start_month..dcfg.end_month : f.month = MonthStr(m)
              /\ RequestedOk([f EXCEPT !.name = <<>>])

\* the scenario: 01/, 02/, 03/ with the month range [1, 1]
C7_Witness ==
    /\ dpc = "returned"
    /\ dcfg.start_month = 1 /\ dcfg.end_month = 1
    /\ links = <<Dir01, Dir02, Dir03>>
    /\ fetched = <<[url |-> YearUrl(base_url, 2024), ok |-> TRUE],
                   [url |-> MonthUrl(YearUrl(base_url, 2024), <<"0", "1">>),
                    ok |-> TRUE]>>
    /\ result = <<[base |-> base_url, year |-> 2024, month |-> <<"0", "1">>,
                   name |-> X_nc],
                  [base |-> base_url, year |-> 2024, month |-> <<"0", "1">>,
                   name |-> Y_nc]>>

MonthNumber(month) == CHOOSE m \in 1..12 : MonthStr(m) = month

\* years ascending; within a year direct files first, then months ascending
OrderedCandidates(urls) ==
    \A k, l \in DOMAIN urls :
        k < l =>
            /\ urls[k].year <= urls[l].year
            /\ urls[k].year = urls[l].year =>
                  /\ urls[l].month = <<>> => urls[k].month = <<>>
                  /\ (urls[k].month # <<>> /\ urls[l].month # <<>>) =>
                        MonthNumber(urls[k].month) <= MonthNumber(urls[l].month)

\* a completed year whose listing holds direct .nc anchors and month anchors
MixedListingCompleted ==
    /\ YearCompleted
    /\ RequestedOk(CompletedYearUrl)
    /\ HasNcAnchor(links)
    /\ ListedTargetMonths(links) # {}

\* C8 as stated: years ascending, direct files before month files, months
\* ascending, and for a listing with both direct .nc anchors and month
\* subdirectories the direct files are followed by the files of its in-range
\* months (so the listings of those months have been read).
C8_OrderAsStated ==
    /\ OrderedCandidates(netcdf_files)
    /\ OrderedCandidates(result)
    /\ MixedListingCompleted =>
          \A m \in ListedTargetMonths(links) :
              Requested(MonthUrl(CompletedYearUrl, MonthStr(m)))

\* C8 (amended): years ascending, months ascending within a year, and a
\* listing with both direct .nc anchors and month subdirectories contributes
\* its direct files only: none of its month listings is requested.
C8_DiscoveryOrder ==
    /\ OrderedCandidates(netcdf_files)
    /\ OrderedCandidates(result)
    /\ MixedListingCompleted =>
          /\ \A k \in DOMAIN fetched :
                fetched[k].url.year = year - 1 => fetched[k].url.month = <<>>
          /\ added # <<>>
          /\ \A f \in Range(added) : f.year = year - 1 /\ f.month = <<>>

\* two months of one year, then a later year whose listing has both kinds
C8_Witness ==
    /\ dpc = "returned"
    /\ MixedListingCompleted
    /\ \E k, l \in DOMAIN result :
          /\ k < l
          /\ result[k].year = result[l].year
          /\ result[k].month # <<>> /\ result[l].month # <<>>
          /\ result[k].month # result[l].month
    /\ \E f \in Range(result) : f.year = year - 1 /\ f.month = <<>>

------------------------------------------------------------------------------
(* Transfer: download_file_http / download_file_ftp and the download steps *)

\* os.path.join(download_folder, os.path.basename(urlparse(file_url).path))
BaseName(file_url) == file_url.name
DestPath(file_url) == <<"download_folder", BaseName(file_url)>>

\* os.path.exists(dest_path), without the check
Exists_Never(d, dest_path) == FALSE

\* os.path.exists(dest_path)
Exists(d, dest_path) == dest_path \in DOMAIN d

\* How one transfer can end.  The request (requests.get and raise_for_status,
\* or FTP login and cwd) precedes open(dest_path, 'wb'); the body is streamed
\* into the opened file.  Every exception is caught and turned into False.
Outcomes == {"ok", "fail_before_open", "fail_after_open"}

\* open(dest_path, 'wb') creates or truncates the destination file
OpenForWriting(d, dest_path) == (dest_path :> "partial") @@ d
WriteAll(d, dest_path) == (dest_path :> "complete") @@ d

\* the download folder after download_file_http / download_file_ftp
DiskAfter(d, dest_path, outcome) ==
    CASE outcome = "fail_before_open" -> d
      [] outcome = "fail_after_open" -> OpenForWriting(d, dest_path)
      [] outcome = "ok" -> WriteAll(OpenForWriting(d, dest_path), dest_path)

\* a transfer that reports success whatever happened
DownloadSucceeded_Always(outcome) == TRUE

\* the boolean download_file_http / download_file_ftp returns
DownloadSucceeded(outcome) == outcome = "ok"

\* an Optional[str] is a sequence of no path (None) or of one path
NoPath == <<>>
TransferResult(outcome, dest_path) ==
    IF DownloadSucceeded(outcome) THEN <<dest_path>> ELSE NoPath

Attempt(r, k, existed, outcome) ==
    [run |-> r, idx |-> k, existed |-> existed, requested |-> ~existed,
     outcome |-> outcome]

Min(a, b) == IF a < b THEN a ELSE b
Without(f, k) == [j \in DOMAIN f \ {k} |-> f[j]]

------------------------------------------------------------------------------
(* Inputs of the transfer specification *)

MaxCands == 2       \* candidates handed to one download step
MaxRuns == 2        \* invocations of the download step on one folder

A_2024 == FileUrl(YearUrl("ifremer", 2024), A_nc)
B_2024 == FileUrl(YearUrl("ifremer", 2024), B_nc)
A_2025 == FileUrl(YearUrl("ifremer", 2025), A_nc)
CandUrls == {A_2024, B_2024, A_2025}

TransferConfigs == [batch_size : {1, 2, 5}, max_workers : {1, 2}]
InitialDisks == {<<>>, WriteAll(<<>>, DestPath(A_2024)),
                 OpenForWriting(<<>>, DestPath(B_2024))}

------------------------------------------------------------------------------
(* The download steps as a state machine *)

InitTransfer ==
    /\ variant \in Variants
    /\ ExtractorIdle
    /\ DiscoverIdle
    /\ RunIdle
    /\ FallbackIdle
    /\ ConcurrentIdle
    /\ tcfg \in (IF variant = "FTP" THEN TransferConfigs
                 ELSE {[batch_size |-> 5, max_workers |-> 2]})
    /\ candidates \in SeqsUpTo(CandUrls, MaxCands)
    /\ disk \in InitialDisks
    /\ run = 1 /\ tidx = 1 /\ batch_start = 1
    /\ inflight = <<>> /\ batch_results = <<>>
    /\ downloaded_files = <<>> /\ attempts = {} /\ returns = <<>>
    /\ completed = <<>>
    /\ tpc = "loop"

\* _download_file_list: one iteration of `for file_url in file_urls`
HttpTransferItem ==
    /\ variant = "IO" /\ tpc = "loop" /\ tidx <= Len(candidates)
    /\ LET dest_path == DestPath(candidates[tidx])
       IN IF Exists(disk, dest_path)
          THEN /\ downloaded_files' = Append(downloaded_files, dest_path)
               /\ attempts' = attempts \cup {Attempt(run, tidx, TRUE, "skipped")}
               /\ disk' = disk
          ELSE \E outcome \in Outcomes :
               /\ disk' = DiskAfter(disk, dest_path, outcome)
               /\ downloaded_files' =
                      downloaded_files \o TransferResult(outcome, dest_path)
               /\ attempts' = attempts \cup {Attempt(run, tidx, FALSE, outcome)}
    /\ tidx' = tidx + 1
    /\ UNCHANGED <<tcfg, candidates, run, batch_start, inflight, batch_results,
                   returns, tpc>>
    /\ completed' = Append(completed, tidx)
    /\ UNCHANGED <<xvars, dvars, rvars, fvars, cvars>>

\* _download_file_list: return downloaded_files
HttpReturn ==
    /\ variant = "IO" /\ tpc = "loop" /\ tidx > Len(candidates)
    /\ returns' = Append(returns, downloaded_files)
    /\ tpc' = "returned"
    /\ UNCHANGED <<tcfg, candidates, disk, run, tidx, batch_start, inflight,
                   batch_results, downloaded_files, attempts>>
    /\ UNCHANGED completed
    /\ UNCHANGED <<xvars, dvars, rvars, fvars, cvars>>

\* a batch that takes every remaining row
BatchEnd_All == Len(candidates)

\* the last row of the batch profiles.iloc[i:i + batch_size]
BatchEnd == Min(batch_start + tcfg.batch_size - 1, Len(candidates))

\* a free worker of the pool takes the next row of the batch and runs
\* download_single_profile up to the start of the transfer
FtpStart ==
    /\ variant = "FTP" /\ tpc = "loop" /\ tidx <= BatchEnd
    /\ Cardinality(DOMAIN inflight) < tcfg.max_workers
    /\ LET dest == DestPath(candidates[tidx])
       IN IF Exists(disk, dest)
          THEN /\ batch_results' = (tidx :> <<dest>>) @@ batch_results
               /\ attempts' = attempts \cup {Attempt(run, tidx, TRUE, "skipped")}
               /\ inflight' = inflight
               /\ completed' = Append(completed, tidx)
          ELSE /\ inflight' = (tidx :> "connecting") @@ inflight
               /\ UNCHANGED <<batch_results, attempts, completed>>
    /\ tidx' = tidx + 1
    /\ UNCHANGED <<tcfg, candidates, disk, run, batch_start, downloaded_files,
                   returns, tpc>>
    /\ UNCHANGED <<xvars, dvars, rvars, fvars, cvars>>

\* download_file_ftp: FTP(), login() or cwd() raises
FtpConnectFails(k) ==
    /\ k \in DOMAIN inflight /\ inflight[k] = "connecting"
    /\ inflight' = Without(inflight, k)
    /\ batch_results' =
           (k :> TransferResult("fail_before_open", DestPath(candidates[k])))
           @@ batch_results
    /\ attempts' = attempts \cup {Attempt(run, k, FALSE, "fail_before_open")}
    /\ UNCHANGED <<tcfg, candidates, disk, run, tidx, batch_start,
                   downloaded_files, returns, tpc>>
    /\ completed' = Append(completed, k)
    /\ UNCHANGED <<xvars, dvars, rvars, fvars, cvars>>

\* download_file_ftp: open(dest_path, "wb")
FtpOpen(k) ==
    /\ k \in DOMAIN inflight /\ inflight[k] = "connecting"
    /\ inflight' = [inflight EXCEPT ![k] = "writing"]
    /\ disk' = OpenForWriting(disk, DestPath(candidates[k]))
    /\ UNCHANGED <<tcfg, candidates, run, tidx, batch_start, batch_results,
                   downloaded_files, attempts, returns, tpc>>
    /\ UNCHANGED completed
    /\ UNCHANGED <<xvars, dvars, rvars, fvars, cvars>>

\* download_file_ftp: retrbinary() completes or raises
FtpFinish(k) ==
    /\ k \in DOMAIN inflight /\ inflight[k] = "writing"
    /\ \E outcome \in {"ok", "fail_after_open"} :
          /\ disk' = (IF outcome = "ok"
                      THEN WriteAll(disk, DestPath(candidates[k]))
                      ELSE disk)
          /\ batch_results' =
                 (k :> TransferResult(outcome, DestPath(candidates[k])))
                 @@ batch_results
          /\ attempts' = attempts \cup {Attempt(run, k, FALSE, outcome)}
    /\ inflight' = Without(inflight, k)
    /\ UNCHANGED <<tcfg, candidates, run, tidx, batch_start, downloaded_files,
                   returns, tpc>>
    /\ completed' = Append(completed, k)
    /\ UNCHANGED <<xvars, dvars, rvars, fvars, cvars>>

\* the pool is left, list(executor.map(...)) in row order, and
\* downloaded_files.extend([f for f in batch_results if f is not None])
FtpBatchDone ==
    /\ variant = "FTP" /\ tpc = "loop"
    /\ batch_start <= Len(candidates)
    /\ tidx > BatchEnd /\ DOMAIN inflight = {}
    /\ downloaded_files' = downloaded_files \o
           Concat([k \in 1..(BatchEnd - batch_start + 1) |->
                       batch_results[batch_start + k - 1]])
    /\ batch_start' = batch_start + tcfg.batch_size
    /\ tidx' = batch_start + tcfg.batch_size
    /\ batch_results' = <<>>
    /\ UNCHANGED <<tcfg, candidates, disk, run, inflight, attempts, returns, tpc>>
    /\ UNCHANGED completed
    /\ UNCHANGED <<xvars, dvars, rvars, fvars, cvars>>

\* download_profiles_batch: return downloaded_files
FtpReturn ==
    /\ variant = "FTP" /\ tpc = "loop"
    /\ batch_start > Len(candidates)
    /\ returns' = Append(returns, downloaded_files)
    /\ tpc' = "returned"
    /\ UNCHANGED <<tcfg, candidates, disk, run, tidx, batch_start, inflight,
                   batch_results, downloaded_files, attempts>>
    /\ UNCHANGED completed
    /\ UNCHANGED <<xvars, dvars, rvars, fvars, cvars>>

\* the download step is invoked again on the same candidates and folder
RunAgain ==
    /\ tpc = "returned" /\ run < MaxRuns
    /\ run' = run + 1
    /\ tidx' = 1 /\ batch_start' = 1
    /\ inflight' = <<>> /\ batch_results' = <<>>
    /\ downloaded_files' = <<>>
    /\ tpc' = "loop"
    /\ UNCHANGED <<tcfg, candidates, disk, attempts, returns>>
    /\ completed' = <<>>
    /\ UNCHANGED <<xvars, dvars, rvars, fvars, cvars>>

NextTransfer ==
    \/ HttpTransferItem
    \/ HttpReturn
    \/ FtpStart
    \/ \E k \in 1..MaxCands : FtpConnectFails(k)
    \/ \E k \in 1..MaxCands : FtpOpen(k)
    \/ \E k \in 1..MaxCands : FtpFinish(k)
    \/ FtpBatchDone
    \/ FtpReturn
    \/ RunAgain

SpecTransfer == InitTransfer /\ [][NextTransfer]_vars

------------------------------------------------------------------------------
(* Claims on transfer *)

AttemptsOf(r, k) == {a \in attempts : a.run = r /\ a.idx = k}
FetchesOf(k) == {a \in attempts : a.idx = k /\ a.requested}
WritingFetchesOf(k) == {a \in FetchesOf(k) : a.outcome # "fail_before_open"}
Succeeded(r, k) ==
    \E a \in AttemptsOf(r, k) : a.existed \/ a.outcome = "ok"

\* every candidate found present was reported as a success of its invocation
SkippedReported ==
    \A a \in attempts :
        (a.existed /\ a.run \in DOMAIN returns)
            => DestPath(candidates[a.idx]) \in Range(returns[a.run])

\* a step that takes up a candidate whose destination file is present:
\* nothing is requested, the folder is left alone, the path is the result
PresentMeansNoRequest ==
    (tpc = "loop" /\ tidx <= Len(candidates) /\ tidx' = tidx + 1
        /\ DestPath(candidates[tidx]) \in DOMAIN disk)
    => /\ attempts' = attempts \cup {Attempt(run, tidx, TRUE, "skipped")}
       /\ disk' = disk
       /\ inflight' = inflight
       /\ (variant = "IO" =>
              downloaded_files' =
                  Append(downloaded_files, DestPath(candidates[tidx])))
       /\ (variant = "FTP" =>
              /\ tidx \in DOMAIN batch_results'
              /\ batch_results'[tidx] = <<DestPath(candidates[tidx])>>)

\* C9 as stated: over both invocations of the download step, no candidate
\* is requested from the network more than once, and a candidate found
\* present is reported as a success.
C9_AsStated ==
    /\ \A k \in DOMAIN candidates : Cardinality(FetchesOf(k)) <= 1
    /\ SkippedReported

\* C9 (idempotent re-download): a candidate whose destination file exists is
\* not requested, the folder is left as it is and the destination path is
\* reported, whatever the file holds; so over the invocations of the download
\* step at most one fetch of a candidate gets as far as writing its
\* destination file, and a candidate is requested a second time only when
\* every earlier request failed before the file was opened.
C9_IdempotentRedownload ==
    /\ [](/\ \A k \in DOMAIN candidates : Cardinality(WritingFetchesOf(k)) <= 1
          /\ \A a \in attempts :
                a.requested =>
                    \A b \in FetchesOf(a.idx) :
                        b.run < a.run => b.outcome = "fail_before_open"
          /\ SkippedReported)
    /\ [][PresentMeansNoRequest]_vars

\* the second invocation has returned; one candidate was fetched into a file
\* that stayed partial and was then reported without being fetched again,
\* another failed before its file was opened and was requested again
C9_Witness ==
    /\ tpc = "returned" /\ run = 2
    /\ \E k, l \in DOMAIN candidates :
          /\ k # l
          /\ \E a \in AttemptsOf(1, k) : a.outcome = "fail_after_open"
          /\ \E a \in AttemptsOf(2, k) : a.existed
          /\ disk[DestPath(candidates[k])] = "partial"
          /\ DestPath(candidates[k]) \in Range(returns[2])
          /\ \E a \in AttemptsOf(1, l) : a.outcome = "fail_before_open"
          /\ \E a \in AttemptsOf(2, l) : a.requested

ExpectedPaths(r) ==
    Concat([k \in DOMAIN candidates |->
                IF Succeeded(r, k) THEN <<DestPath(candidates[k])>> ELSE <<>>])

\* C10 (transfer failure isolation): every invocation of the download step
\* that has returned attempted every candidate exactly once and returned the
\* destination paths of exactly the candidates that were fetched successfully
\* or found present, in candidate order; the failing ones are left out.
C10_FailureIsolation ==
    \A r \in DOMAIN returns :
        /\ \A k \in DOMAIN candidates : Cardinality(AttemptsOf(r, k)) = 1
        /\ returns[r] = ExpectedPaths(r)

\* an invocation has returned in which a candidate failed and a later
\* candidate was then fetched successfully
C10_Witness ==
    /\ tpc = "returned"
    /\ \E k, l \in DOMAIN candidates :
          /\ k < l
          /\ \E a \in AttemptsOf(run, k) :
                a.outcome \in {"fail_before_open", "fail_after_open"}
          /\ \E a \in AttemptsOf(run, l) : a.outcome = "ok"
          /\ returns[run] = <<DestPath(candidates[l])>>

\* the batch a row belongs to, counted from 0: range(0, len, batch_size)
BatchOf(k) == (k - 1) \div tcfg.batch_size
Started == DOMAIN inflight \cup Range(completed)

\* C21 (bounded transfer pool, FTP variant): at most max_workers transfers are
\* in flight, all of the same batch of at most batch_size rows; a row of a
\* later batch is started only when every row of the earlier batches has
\* ended; the list returned follows the order of the rows whatever the order
\* in which the transfers ended.
C21_BoundedPool ==
    variant = "FTP" =>
        /\ Cardinality(DOMAIN inflight) <= tcfg.max_workers
        /\ \A k, l \in DOMAIN inflight : BatchOf(k) = BatchOf(l)
        /\ \A k \in DOMAIN candidates :
               Cardinality({l \in DOMAIN candidates : BatchOf(l) = BatchOf(k)})
                   <= tcfg.batch_size
        /\ \A k \in Started : \A j \in DOMAIN candidates :
               BatchOf(j) < BatchOf(k)
                   => (j \in Range(completed) /\ j \notin DOMAIN inflight)
        /\ \A r \in DOMAIN returns : returns[r] = ExpectedPaths(r)

\* both rows of one batch were in flight together, the second ended first,
\* and the list returned has the first row's path first
C21_Witness ==
    /\ variant = "FTP" /\ tpc = "returned" /\ run = 1
    /\ tcfg.max_workers = 2 /\ tcfg.batch_size >= 2
    /\ completed = <<2, 1>>
    /\ Len(candidates) = 2
    /\ DestPath(candidates[1]) # DestPath(candidates[2])
    /\ returns[1] = <<DestPath(candidates[1]), DestPath(candidates[2])>>

\* the candidates are stored under pairwise different names
DistinctBaseNames ==
    \A k, l \in DOMAIN candidates :
        BaseName(candidates[k]) = BaseName(candidates[l]) => k = l

\* a transfer reported as failed, of the outcomes in F, leaves no file at its
\* destination and is followed by a new fetch in the next invocation
NotCached(F) ==
    DistinctBaseNames =>
        \A a \in attempts :
            (a.requested /\ a.outcome \in F) =>
                /\ (tpc = "returned" /\ run = a.run)
                      => ~Exists(disk, DestPath(candidates[a.idx]))
                /\ \A b \in AttemptsOf(a.run + 1, a.idx) : b.requested

\* C29: after a transfer of a candidate has been reported as failed, also
\* when it failed after the destination file was opened for writing, no file
\* exists at its destination path, so a later transfer of the same candidate
\* performs a new fetch instead of treating it as already downloaded.
C29_FailureNotCached == NotCached({"fail_before_open", "fail_after_open"})

\* the same for the transfers that fail before the destination is opened
C29_EarlyFailureNotCached == NotCached({"fail_before_open"})

\* a transfer failed before its file was opened and was fetched again
C29_EarlyWitness ==
    /\ DistinctBaseNames /\ run = 2 /\ tpc = "returned"
    /\ \E k \in DOMAIN candidates :
          /\ \E a \in AttemptsOf(1, k) : a.outcome = "fail_before_open"
          /\ \E b \in AttemptsOf(2, k) : b.requested /\ b.outcome = "ok"

\* a transfer failed after its file was opened; the next invocation reported
\* the partial file as downloaded
C29_CachedWitness ==
    /\ DistinctBaseNames /\ run = 2 /\ tpc = "returned"
    /\ \E k \in DOMAIN candidates :
          /\ \E a \in AttemptsOf(1, k) : a.outcome = "fail_after_open"
          /\ \E b \in AttemptsOf(2, k) : b.existed
          /\ disk[DestPath(candidates[k])] = "partial"
          /\ DestPath(candidates[k]) \in Range(returns[2])
          /\ DestPath(candidates[k]) \notin Range(returns[1])

\* no element occurs twice in s
Distinct(s) == \A k, l \in DOMAIN s : s[k] = s[l] => k = l

\* C27: within one run no local path is handed to the extractor more than
\* once: the list _download_file_list returns for pairwise different
\* candidate URLs (which run_full_ingestion passes to process_all_files) has
\* no path twice, also when two of the URLs have the same base name.
C27_NoDoubleExtraction ==
    (variant = "IO" /\ Distinct(candidates)) =>
        /\ Distinct(downloaded_files)
        /\ \A r \in DOMAIN returns : Distinct(returns[r])

\* the same for candidates whose base names differ
C27_DistinctBaseNames ==
    (variant = "IO" /\ Distinct([k \in DOMAIN candidates |-> BaseName(candidates[k])]))
        => /\ Distinct(downloaded_files)
           /\ \A r \in DOMAIN returns : Distinct(returns[r])

\* two candidates with different base names were both downloaded
C27_DistinctWitness ==
    /\ variant = "IO" /\ candidates = <<A_2024, B_2024>>
    /\ returns # <<>> /\ returns[1] = <<DestPath(A_2024), DestPath(B_2024)>>

\* the same base name in two year directories: its path is returned twice
C27_SameNameWitness ==
    /\ variant = "IO" /\ candidates = <<A_2024, A_2025>> /\ run = 1
    /\ Attempt(1, 1, FALSE, "ok") \in attempts
    /\ Attempt(1, 2, TRUE, "skipped") \in attempts
    /\ returns = << <<DestPath(A_2024), DestPath(A_2024)>> >>

------------------------------------------------------------------------------
(* download_files_with_fallback as a state machine *)

MaxQuota == 3       \* largest max_files, and most files a source lists

\* the files a source lists when it is asked without a cap
Listing(source, n) == [k \in 1..n |-> [source |-> source, n |-> k]]

Listings ==
    [ifremer : {Listing("ifremer", n) : n \in 0..MaxQuota},
     noaa : {Listing("noaa", n) : n \in 0..MaxQuota}]

\* a slice that keeps the whole list
Take_All(s, n) == s

\* s[:n] for n >= 0
Take(s, n) == SubSeq(s, 1, Min(n, Len(s)))

\* discover_netcdf_files(base_url, max_files) ends with netcdf_files[:max_files]
Discovered(source, max) == Take(listings[source], max)

\* _download_file_list(file_urls): the paths of the URLs whose file exists or
\* whose download succeeded, in order
DownloadedLists(file_urls) ==
    {Pick(file_urls, I) : I \in SUBSET DOMAIN file_urls}

InitFallback ==
    /\ ExtractIdle /\ DiscoverIdle /\ TransferIdle /\ RunIdle
    /\ ConcurrentIdle
    /\ fb_max_files \in 0..MaxQuota
    /\ listings \in Listings
    /\ ifremer_files = <<>> /\ noaa_files = <<>> /\ remaining = 0
    /\ fb_downloaded = <<>> /\ consulted = <<>> /\ requested = <<>>
    /\ fpc = "ifremer"

\* ifremer_files = self.discover_netcdf_files(ifremer_base_url, max_files)
TryIfremer ==
    /\ fpc = "ifremer"
    /\ ifremer_files' = Discovered("ifremer", fb_max_files)
    /\ consulted' = Append(consulted, [source |-> "ifremer", max_files |-> fb_max_files])
    /\ fpc' = "ifremer_files"
    /\ UNCHANGED <<fb_max_files, listings, noaa_files, remaining, fb_downloaded,
                   requested>>
    /\ UNCHANGED <<xvars, dvars, tvars, rvars, cvars>>

\* if ifremer_files: downloaded_files.extend(
\*     self._download_file_list(ifremer_files[:max_files//2]))
\* and the test "if len(downloaded_files) < max_files"
DownloadIfremer ==
    /\ fpc = "ifremer_files"
    /\ IF ifremer_files # <<>>
       THEN LET file_urls == Take(ifremer_files, fb_max_files \div 2)
            IN  /\ requested' = Append(requested, file_urls)
                /\ \E got \in DownloadedLists(file_urls) :
                      fb_downloaded' = fb_downloaded \o got
       ELSE UNCHANGED <<requested, fb_downloaded>>
    /\ fpc' = IF Len(fb_downloaded') < fb_max_files THEN "noaa" ELSE "return"
    /\ UNCHANGED <<fb_max_files, listings, ifremer_files, noaa_files, remaining,
                   consulted>>
    /\ UNCHANGED <<xvars, dvars, tvars, rvars, cvars>>

\* remaining = max_files - len(downloaded_files)
\* noaa_files = self.discover_netcdf_files(noaa_base_url, remaining)
TryNoaa ==
    /\ fpc = "noaa"
    /\ remaining' = fb_max_files - Len(fb_downloaded)
    /\ noaa_files' = Discovered("noaa", remaining')
    /\ consulted' = Append(consulted, [source |-> "noaa", max_files |-> remaining'])
    /\ fpc' = "noaa_files"
    /\ UNCHANGED <<fb_max_files, listings, ifremer_files, fb_downloaded, requested>>
    /\ UNCHANGED <<xvars, dvars, tvars, rvars, cvars>>

\* if noaa_files: downloaded_files.extend(
\*     self._download_file_list(noaa_files[:remaining]))
DownloadNoaa ==
    /\ fpc = "noaa_files"
    /\ IF noaa_files # <<>>
       THEN LET file_urls == Take(noaa_files, remaining)
            IN  /\ requested' = Append(requested, file_urls)
                /\ \E got \in DownloadedLists(file_urls) :
                      fb_downloaded' = fb_downloaded \o got
       ELSE UNCHANGED <<requested, fb_downloaded>>
    /\ fpc' = "return"
    /\ UNCHANGED <<fb_max_files, listings, ifremer_files, noaa_files, remaining,
                   consulted>>
    /\ UNCHANGED <<xvars, dvars, tvars, rvars, cvars>>

\* return downloaded_files
FallbackReturn ==
    /\ fpc = "return"
    /\ fpc' = "returned"
    /\ UNCHANGED <<fb_max_files, listings, ifremer_files, noaa_files, remaining,
                   fb_downloaded, consulted, requested>>
    /\ UNCHANGED <<xvars, dvars, tvars, rvars, cvars>>

NextFallback ==
    \/ TryIfremer
    \/ DownloadIfremer
    \/ TryNoaa
    \/ DownloadNoaa
    \/ FallbackReturn

SpecFallback == InitFallback /\ [][NextFallback]_vars

------------------------------------------------------------------------------
(* Claims on the source fallback *)

FromSource(source) == SelectSeq(fb_downloaded, LAMBDA f : f.source = source)
NoaaConsulted == \E k \in DOMAIN consulted : consulted[k].source = "noaa"

\* C17: the primary source is tried first and may supply files up to the cap
\* max_files; the secondary source is consulted only if the primary yielded
\* fewer than max_files files, and then only for the remaining quota,
\* max_files minus the number already obtained.
C17_SourceFallback ==
    /\ consulted # <<>> =>
          consulted[1] = [source |-> "ifremer", max_files |-> fb_max_files]
    /\ (requested # <<>> /\ ifremer_files # <<>>) =>
          requested[1] = Take(ifremer_files, fb_max_files)
    /\ \A k \in DOMAIN consulted :
          consulted[k].source = "noaa" =>
             /\ k = 2
             /\ Len(ifremer_files) < fb_max_files
             /\ consulted[k].max_files = fb_max_files - Len(FromSource("ifremer"))

\* what the function does: the primary source is asked first for max_files
\* files and at most max_files // 2 of them are fetched; the secondary source
\* is consulted exactly when fewer than max_files files were obtained, for
\* max_files minus that number; the list returned never exceeds max_files
C17_FallbackAsCoded ==
    /\ consulted # <<>> =>
          consulted[1] = [source |-> "ifremer", max_files |-> fb_max_files]
    /\ Len(FromSource("ifremer")) <= fb_max_files \div 2
    /\ \A k \in DOMAIN consulted :
          consulted[k].source = "noaa" =>
             /\ k = 2
             /\ Len(FromSource("ifremer")) < fb_max_files
             /\ consulted[k].max_files = fb_max_files - Len(FromSource("ifremer"))
    /\ fpc \in {"return", "returned"} =>
          /\ NoaaConsulted <=> Len(FromSource("ifremer")) < fb_max_files
          /\ Len(fb_downloaded) <= fb_max_files

\* the primary source listed max_files files, every transfer succeeded, and
\* the secondary source was consulted all the same
C17_HalfWitness ==
    /\ fpc = "returned" /\ fb_max_files = 2
    /\ Len(ifremer_files) = 2 /\ requested[1] = <<ifremer_files[1]>>
    /\ Len(FromSource("ifremer")) = 1
    /\ NoaaConsulted /\ remaining = 1

\* the URLs handed to _download_file_list so far, of both sources
Attempted == Concat(requested)

AttemptedFrom(source) == SelectSeq(Attempted, LAMBDA f : f.source = source)

\* C30 as stated: for every max_files >= 0 and every content of the two
\* sources the call returns at most max_files local paths, and at most
\* max_files transfers are attempted, primary and secondary source together.
C30_AsStated ==
    /\ Len(fb_downloaded) <= fb_max_files
    /\ Len(Attempted) <= fb_max_files

\* C30 (amended): the call returns at most max_files local paths; at most
\* max_files // 2 transfers are attempted on the primary source, and the
\* transfers attempted on both sources together are at most max_files plus
\* the primary transfers that failed.
C30_TotalFileCap ==
    /\ Len(fb_downloaded) <= fb_max_files
    /\ Len(AttemptedFrom("ifremer")) <= fb_max_files \div 2
    /\ Len(Attempted) <= fb_max_files
           + (Len(AttemptedFrom("ifremer")) - Len(FromSource("ifremer")))
    /\ Len(Attempted) <= fb_max_files + fb_max_files \div 2

\* a call that returned max_files paths after one transfer more than that
C30_Witness ==
    /\ fpc = "returned" /\ fb_max_files = 2
    /\ Len(fb_downloaded) = 2 /\ Len(Attempted) = 3
    /\ FromSource("ifremer") = <<>> /\ Len(AttemptedFrom("ifremer")) = 1

------------------------------------------------------------------------------
(* The catalog pre-filter, the schema and the loader *)

\* ArgoConfig.start_date = "2024-01-01" and end_date = "2024-12-31" as the
\* timestamps they are compared as, written YYYYMMDDHH (midnight)
StartDate == 2024010100
EndDate == 2024123100

\* the boolean mask of filter_profiles; a comparison with NaN is False
InBounds(cfg, row) ==
    /\ ~IsNaN(row.latitude) /\ ~IsNaN(row.longitude)
    /\ row.latitude >= cfg.lat_min /\ row.latitude <= cfg.lat_max
    /\ row.longitude >= cfg.lon_min /\ row.longitude <= cfg.lon_max
    /\ row.date >= StartDate /\ row.date <= EndDate

\* filter_profiles without the cap
FilterProfiles_NoCap(cfg, max_profiles, df_index) ==
    SelectSeq(df_index, LAMBDA row : InBounds(cfg, row))

\* filter_profiles
FilterProfiles(cfg, max_profiles, df_index) ==
    LET filtered == SelectSeq(df_index, LAMBDA row : InBounds(cfg, row))
    IN  IF Len(filtered) > max_profiles
        THEN SubSeq(filtered, 1, max_profiles)
        ELSE filtered

\* process_all_files on the datasets of the given files
ProcessAllFiles(v, dss) ==
    Combine(v, SelectSeq([k \in DOMAIN dss |-> ProcessNcFile(v, dss[k])],
                         LAMBDA df : df # <<>>))

\* the columns of CREATE TABLE argo_profiles other than profile_id
ProfileColumns ==
    {"float_id", "latitude", "longitude", "date_time", "temperature",
     "salinity", "pressure", "depth", "dissolved_oxygen", "ph", "region"}

\* df.to_sql("argo_profiles", if_exists="append") inserts the columns of the
\* frame; a column the table does not have makes the INSERT fail
InsertFails(df) == \E k \in DOMAIN df : ~(DOMAIN df[k] \subseteq ProfileColumns)

\* sample_data = df.head(25) / df.head(20)
OceanSample(v) == IF v = "IO" THEN 25 ELSE 20

\* one row of ocean_conditions; the other fields are random draws
Condition(row) ==
    [timestamp |-> row.date_time, latitude |-> row.latitude,
     longitude |-> row.longitude]

OceanConditions(v, df) ==
    [k \in 1..Min(Len(df), OceanSample(v)) |-> Condition(df[k])]

\* bots_data, by bot_id
BotsData == <<"BOT001", "BOT002", "BOT003", "BOT004">>

\* create_sqlite_schema without DROP TABLE IF EXISTS argo_profiles
CreateSchema_KeepProfiles(d) == [NoTables EXCEPT !.argo_profiles = d.argo_profiles]

\* create_sqlite_schema: the three tables dropped and created empty
CreateSchema(d) == NoTables

\* how save_to_sqlite can end for a frame that is not empty: the three
\* to_sql calls commit one after the other, and any of them may raise
\* bot_id is the primary key of agro_bots; an empty frame is refused at once
LoadOutcomes(d, df) ==
    IF df = <<>> THEN {"empty"}
    ELSE IF InsertFails(df) THEN {"fail_profiles"}
    ELSE {"fail_profiles", "fail_conditions", "fail_bots"}
         \cup (IF Range(d.agro_bots) \cap Range(BotsData) = {} THEN {"ok"} ELSE {})

\* the tables after save_to_sqlite
DbAfterLoad(v, d, df, outcome) ==
    IF outcome = "empty" THEN d ELSE
    LET d1 == IF outcome = "fail_profiles" THEN d
              ELSE [d EXCEPT !.argo_profiles = @ \o df]
        d2 == IF outcome \in {"fail_profiles", "fail_conditions"} THEN d1
              ELSE [d1 EXCEPT !.ocean_conditions = @ \o OceanConditions(v, df)]
    IN  IF outcome = "ok" THEN [d2 EXCEPT !.agro_bots = @ \o BotsData] ELSE d2

\* a loader that reports success whatever happened
LoadSucceeded_Always(outcome) == TRUE

\* the boolean save_to_sqlite returns
LoadSucceeded(outcome) == outcome = "ok"

------------------------------------------------------------------------------
(* Inputs of the run specification *)

MaxRows == 2          \* rows of the catalog the sources offer
MaxIngestions == 2    \* runs made one after the other on one database

Drivers == {"io_main", "ftp_main", "one_month"}
VariantOf(drv) == IF drv = "ftp_main" THEN "FTP" ELSE "IO"

Row(file, lat, lon, date) ==
    [file |-> file, latitude |-> lat, longitude |-> lon, date |-> date]

CatalogRows ==
    {Row("in.nc", 15, 70, 2024060100),
     Row("min.nc", 10, 65, StartDate),
     Row("max.nc", 25, 85, EndDate),
     Row("north.nc", 26, 70, 2024060100),
     Row("late.nc", 15, 70, 2024123112),
     Row("nolat.nc", NaN, 70, 2024060100)}

Catalogs == SeqsUpTo(CatalogRows, MaxRows)

\* the dataset a downloaded file holds
ContentOf(file) ==
    CASE file = "in.nc" -> OneCellDs("PRES", 2, 0, ValidTemp, 15, 70)
      [] file = "min.nc" -> OneCellDs("PRES", 2, 55, ValidTempPsal, 10, 65)
      [] file = "max.nc" -> Unopenable
      [] file = "north.nc" -> OneCellDs("PRES", 2, 0, ValidTemp, 40, 70)
      [] file = "late.nc" -> OneCellDs("PRES", 2, NaN, ValidTemp, 15, 70)
      [] OTHER -> OneCellDs("PRES", 2, 0, ValidTemp, 15, 75)

RunConfigs == [max_profiles : {1, 50}]

StaleRow ==
    [float_id |-> "1901", date_time |-> 100, latitude |-> 12, longitude |-> 80,
     pressure |-> 5, depth |-> 5, region |-> "Bay of Bengal",
     temperature |-> 240]

InitialDbs ==
    {NoTables,
     [argo_profiles |-> <<StaleRow>>, ocean_conditions |-> <<Condition(StaleRow)>>,
      agro_bots |-> BotsData]}

FilesOf(rows) == [k \in DOMAIN rows |-> rows[k].file]

------------------------------------------------------------------------------
(* run_full_ingestion and its drivers as a state machine *)

InitRun ==
    /\ driver \in Drivers
    /\ variant = VariantOf(driver)
    /\ ExtractorIdle /\ DiscoverIdle /\ TransferIdle /\ FallbackIdle
    /\ ConcurrentIdle
    /\ rcfg \in (IF driver = "ftp_main" THEN RunConfigs ELSE {[max_profiles |-> 50]})
    /\ remote \in Catalogs
    /\ ingestion = 1
    /\ rpc = "schema"
    /\ steps = <<>>
    /\ filtered_profiles = <<>> /\ run_files = <<>> /\ processed_data = <<>>
    /\ db \in InitialDbs
    /\ db_before = db
    /\ outcomes = <<>> /\ loaded = <<>>
    /\ exit_status = "running"

\* return success from run_full_ingestion
Returns(success) == outcomes' = <<success>> /\ rpc' = "returned"
Goes(next) == outcomes' = outcomes /\ rpc' = next
Took(step) == steps' = Append(steps, step)
\* the step raised into the except clause of run_full_ingestion
TookAndRaised(step) == steps' = steps \o <<step, "raised">>

\* the checks that never end a run early
Empty_Never(x) == FALSE

\* filtered_profiles.empty, not downloaded_files, processed_data.empty
Empty(x) == x = <<>>

\* Step 1: self.create_sqlite_schema()
SchemaOk ==
    /\ rpc = "schema"
    /\ db' = CreateSchema(db)
    /\ Took("schema")
    /\ Goes(IF variant = "IO" THEN "download" ELSE "index")
    /\ UNCHANGED <<driver, db_before, rcfg, remote, ingestion, filtered_profiles, run_files,
                   processed_data, loaded, exit_status>>
    /\ UNCHANGED <<xvars, dvars, tvars, fvars, cvars>>

\* create_sqlite_schema logs and re-raises; the except of run_full_ingestion
\* returns False.  The statements executed before the failure may or may not
\* have taken effect.
SchemaFails ==
    /\ rpc = "schema"
    /\ db' \in {db, CreateSchema(db)}
    /\ TookAndRaised("schema")
    /\ Returns(FALSE)
    /\ UNCHANGED <<driver, db_before, rcfg, remote, ingestion, filtered_profiles, run_files,
                   processed_data, loaded, exit_status>>
    /\ UNCHANGED <<xvars, dvars, tvars, fvars, cvars>>

\* FTP Step 2: fetch_global_index() returns the catalog
IndexOk ==
    /\ rpc = "index"
    /\ Took("index")
    /\ Goes("filter")
    /\ UNCHANGED <<driver, db_before, rcfg, remote, ingestion, filtered_profiles, run_files,
                   processed_data, db, loaded, exit_status>>
    /\ UNCHANGED <<xvars, dvars, tvars, fvars, cvars>>

\* a failed catalog fetch after which the run goes on without a catalog
IndexFails_GoesOn ==
    /\ rpc = "index"
    /\ TookAndRaised("index")
    /\ Goes("filter")
    /\ UNCHANGED <<driver, db_before, rcfg, remote, ingestion, filtered_profiles, run_files,
                   processed_data, db, loaded, exit_status>>
    /\ UNCHANGED <<xvars, dvars, tvars, fvars, cvars>>

\* fetch_global_index() cannot fetch or parse the catalog and re-raises
IndexFails ==
    /\ rpc = "index"
    /\ TookAndRaised("index")
    /\ Returns(FALSE)
    /\ UNCHANGED <<driver, db_before, rcfg, remote, ingestion, filtered_profiles, run_files,
                   processed_data, db, loaded, exit_status>>
    /\ UNCHANGED <<xvars, dvars, tvars, fvars, cvars>>

\* FTP Step 3: filter_profiles(df_index), and the check for no profile
FilterStep ==
    /\ rpc = "filter"
    /\ filtered_profiles' = FilterProfiles(ConfigOf("FTP"), rcfg.max_profiles, remote)
    /\ Took("filter")
    /\ IF Empty(filtered_profiles') THEN Returns(FALSE) ELSE Goes("download")
    /\ UNCHANGED <<driver, db_before, rcfg, remote, ingestion, run_files, processed_data,
                   db, loaded, exit_status>>
    /\ UNCHANGED <<xvars, dvars, tvars, fvars, cvars>>

\* the candidates of the download step: the files the sources list (Indian
\* Ocean variant) or the files of the filtered rows (FTP variant)
RunCandidates ==
    IF variant = "IO" THEN FilesOf(remote) ELSE FilesOf(filtered_profiles)

\* download_files_with_fallback / download_profiles_batch: the local paths of
\* the candidates whose transfer succeeded, in order; then the check for no file
DownloadStep ==
    /\ rpc = "download"
    /\ \E I \in SUBSET DOMAIN RunCandidates : run_files' = Pick(RunCandidates, I)
    /\ Took("download")
    /\ IF Empty(run_files') THEN Returns(FALSE) ELSE Goes("extract")
    /\ UNCHANGED <<driver, db_before, rcfg, remote, ingestion, filtered_profiles,
                   processed_data, db, loaded, exit_status>>
    /\ UNCHANGED <<xvars, dvars, tvars, fvars, cvars>>

\* process_all_files(downloaded_files), and the check for an empty dataset
ExtractStep ==
    /\ rpc = "extract"
    /\ processed_data' =
           ProcessAllFiles(variant, [k \in DOMAIN run_files |-> ContentOf(run_files[k])])
    /\ Took("extract")
    /\ IF Empty(processed_data') THEN Returns(FALSE) ELSE Goes("load")
    /\ UNCHANGED <<driver, db_before, rcfg, remote, ingestion, filtered_profiles, run_files,
                   db, loaded, exit_status>>
    /\ UNCHANGED <<xvars, dvars, tvars, fvars, cvars>>

\* save_to_sqlite(processed_data), and the return of its result
LoadStep ==
    /\ rpc = "load"
    /\ \E outcome \in LoadOutcomes(db, processed_data) :
          /\ db' = DbAfterLoad(variant, db, processed_data, outcome)
          /\ Returns(LoadSucceeded(outcome))
          /\ loaded' = IF outcome = "ok" /\ loaded = <<>>
                       THEN <<[ingestion |-> ingestion, files |-> run_files,
                               data |-> processed_data, db |-> db']>>
                       ELSE loaded
          /\ steps' = steps \o (IF outcome = "ok" THEN <<"load">>
                                 ELSE <<"load", "load_failed">>)
    /\ UNCHANGED <<driver, db_before, rcfg, remote, ingestion, filtered_profiles, run_files,
                   processed_data, exit_status>>
    /\ UNCHANGED <<xvars, dvars, tvars, fvars, cvars>>

\* main() of the two processors prints a message and returns
MainExit ==
    /\ rpc = "returned" /\ driver \in {"io_main", "ftp_main"}
    /\ exit_status' = "0"
    /\ rpc' = "exited"
    /\ UNCHANGED <<driver, db_before, rcfg, remote, ingestion, steps, filtered_profiles,
                   run_files, processed_data, db, outcomes, loaded>>
    /\ UNCHANGED <<xvars, dvars, tvars, fvars, cvars>>

\* one_month_argo_test.py --ingest: sys.exit(1) unless test_one_month_ingestion
\* returned True; after a successful run the database report may still raise
OneMonthExit ==
    /\ rpc = "returned" /\ driver = "one_month"
    /\ exit_status' \in (IF outcomes[Len(outcomes)] THEN {"0", "1"} ELSE {"1"})
    /\ rpc' = "exited"
    /\ UNCHANGED <<driver, db_before, rcfg, remote, ingestion, steps, filtered_profiles,
                   run_files, processed_data, db, outcomes, loaded>>
    /\ UNCHANGED <<xvars, dvars, tvars, fvars, cvars>>

\* the driver is started again on the same database and the same sources
IngestAgain ==
    /\ rpc = "exited" /\ ingestion < MaxIngestions
    /\ ingestion' = ingestion + 1
    /\ rpc' = "schema"
    /\ steps' = <<>>
    /\ filtered_profiles' = <<>> /\ run_files' = <<>> /\ processed_data' = <<>>
    /\ exit_status' = "running"
    /\ outcomes' = <<>>
    /\ db_before' = db
    /\ UNCHANGED <<driver, rcfg, remote, db, loaded>>
    /\ UNCHANGED <<xvars, dvars, tvars, fvars, cvars>>

NextRun ==
    \/ SchemaOk
    \/ SchemaFails
    \/ IndexOk
    \/ IndexFails
    \/ FilterStep
    \/ DownloadStep
    \/ ExtractStep
    \/ LoadStep
    \/ MainExit
    \/ OneMonthExit
    \/ IngestAgain

SpecRun == InitRun /\ [][NextRun]_vars

\* every step of a run that is under way is eventually taken
SpecRunFair == SpecRun /\ WF_vars(NextRun)

------------------------------------------------------------------------------
(* Claims on the run *)

Markers == {"raised", "load_failed"}
PipelineSteps == SelectSeq(steps, LAMBDA e : e \notin Markers)
StepOrder(v) ==
    IF v = "IO" THEN <<"schema", "download", "extract", "load">>
    ELSE <<"schema", "index", "filter", "download", "extract", "load">>
IsPrefix(a, b) == Len(a) <= Len(b) /\ a = SubSeq(b, 1, Len(a))
Finished == rpc \in {"returned", "exited"}
LastOutcome == outcomes[Len(outcomes)]

\* the sources list no file, or no row of the catalog is inside the bounds
NoInput ==
    IF variant = "IO" THEN remote = <<>>
    ELSE \A k \in DOMAIN remote : ~InBounds(ConfigOf("FTP"), remote[k])

\* C14: when discovery yields no candidate, or the pre-filter no profile,
\* the run returns False and the loader is not invoked.
C14_EmptyInputFailure ==
    NoInput =>
        /\ "load" \notin Range(steps)
        /\ \A k \in DOMAIN outcomes : ~outcomes[k]
        /\ Finished => Len(outcomes) = 1

\* an FTP run has ended at the pre-filter: the catalog has rows, none in bounds
C14_Witness ==
    /\ Finished /\ NoInput /\ variant = "FTP" /\ remote # <<>>
    /\ steps = <<"schema", "index", "filter">>
    /\ ~LastOutcome

\* C15: the steps of a run are taken in the order schema, (catalog, filter,)
\* download, extraction, load, each at most once; the run returns True exactly
\* when the loader was invoked and succeeded; the loader is invoked only on a
\* dataset that is not empty, and an empty dataset ends the run with False.
C15_StepOrderAndOutcome ==
    /\ IsPrefix(PipelineSteps, StepOrder(variant))
    /\ (Finished /\ LastOutcome) => steps[Len(steps)] = "load"
    /\ (Finished /\ "load" \in Range(steps) /\ "load_failed" \notin Range(steps))
          => LastOutcome
    /\ "load" \in Range(steps) => processed_data # <<>>
    /\ (Finished /\ "extract" \in Range(steps) /\ processed_data = <<>>)
          => (~LastOutcome /\ "load" \notin Range(steps))

\* a run has taken every step and returned True
C15_Witness ==
    /\ rpc = "returned" /\ outcomes = <<TRUE>>
    /\ steps = StepOrder("IO")
    /\ processed_data # <<>>

\* C16: a failure of schema creation, of the catalog fetch or of the loader
\* is the last thing the run does and the run returns False; every run
\* returns a boolean, and every run that starts ends.
C16_FatalShortCircuit ==
    /\ [](/\ \A k \in DOMAIN steps :
                steps[k] \in Markers
                    => (k = Len(steps) /\ Finished /\ ~LastOutcome)
          /\ Len(outcomes) = IF Finished THEN 1 ELSE 0)
    /\ (rpc = "schema") ~> Finished

\* a run has ended at the catalog fetch that raised
C16_Witness ==
    /\ Finished /\ steps = <<"schema", "index", "raised">> /\ ~LastOutcome

\* the positions of the catalog rows inside the box and the period, bounds included
RowsInside ==
    LET c == ConfigOf("FTP")
    IN  {k \in DOMAIN remote :
            /\ remote[k].latitude # NaN /\ remote[k].longitude # NaN
            /\ c.lat_min <= remote[k].latitude /\ remote[k].latitude <= c.lat_max
            /\ c.lon_min <= remote[k].longitude /\ remote[k].longitude <= c.lon_max
            /\ StartDate <= remote[k].date /\ remote[k].date <= EndDate}

\* the i-th smallest element of a set of positions
NthOf(K, i) == CHOOSE k \in K : Cardinality({j \in K : j < k}) = i - 1

\* C18: filter_profiles returns, in catalog order, exactly the first
\* min(max_profiles, k) of the k catalog rows inside the box and the period
\* (bounds inclusive); no row outside is returned and never more than
\* max_profiles rows.
C18_PreFilter ==
    "filter" \in Range(steps) =>
        /\ Len(filtered_profiles) = Min(rcfg.max_profiles, Cardinality(RowsInside))
        /\ \A i \in DOMAIN filtered_profiles :
               filtered_profiles[i] = remote[NthOf(RowsInside, i)]
        /\ Len(filtered_profiles) <= rcfg.max_profiles

\* the cap binds: two rows on the edges of the box and the period, a cap of one
C18_Witness ==
    /\ "filter" \in Range(steps)
    /\ rcfg.max_profiles = 1 /\ Len(remote) = 2 /\ RowsInside = {1, 2}
    /\ remote[1].date = StartDate /\ remote[2].date = EndDate
    /\ filtered_profiles = <<remote[1]>>

C20_ExitStatus ==
    rpc = "exited" =>
        /\ ~LastOutcome => exit_status # "0"
        /\ exit_status = "0" => LastOutcome

\* the same, of the driver one_month_argo_test.py --ingest alone
C20_ExitStatusOneMonth == driver = "one_month" => C20_ExitStatus

\* the one-month driver has exited after a run that returned False
C20_OneMonthWitness ==
    driver = "one_month" /\ rpc = "exited" /\ ~LastOutcome /\ exit_status = "1"

\* every field of every record handed to save_to_sqlite is a column of
\* argo_profiles, in the runs of the given processors
RecordsConform(V) ==
    variant \in V =>
        \A k \in DOMAIN processed_data :
            DOMAIN processed_data[k] \subseteq ProfileColumns

\* C26: in both processors every field name of every record handed to
\* save_to_sqlite is a column of the argo_profiles table of
\* create_sqlite_schema, so that the bulk append is accepted and a run with
\* a retained record can return True.
C26_SchemaConformance == RecordsConform(Variants)

\* the same for IndianOceanArgoProcessor alone
C26_SchemaConformanceIO == RecordsConform({"IO"})

\* a run of IndianOceanArgoProcessor with a retained record returned True
C26_IOWitness ==
    /\ variant = "IO" /\ Finished /\ LastOutcome
    /\ processed_data # <<>> /\ db.argo_profiles = processed_data

\* no run of ArgoNetCDFProcessor returns True
C26_FtpNeverDone == variant = "FTP" => ~(outcomes = <<TRUE>>)

\* a run of ArgoNetCDFProcessor with a retained record returned False
C26_FtpWitness ==
    /\ variant = "FTP" /\ outcomes = <<FALSE>> /\ processed_data # <<>>
    /\ "profile_index" \in DOMAIN processed_data[1]

\* the run returned False at one of its emptiness checks: nothing discovered
\* or filtered, nothing downloaded, or nothing extracted
EndedEmpty ==
    /\ Finished /\ ~LastOutcome
    /\ "load" \notin Range(steps) /\ "raised" \notin Range(steps)

\* C28 as stated: only a successful run replaces the contents of the tables;
\* a run that returns False because discovery, transfer or extraction
\* produced nothing leaves the rows the three tables held before unchanged.
C28_AsStated == EndedEmpty => db = db_before

\* C28 (amended): the tables are dropped and recreated at the start of every
\* run; a run that returns False because discovery, transfer or extraction
\* produced nothing leaves the three tables empty, whatever they held before.
C28_FailedRunEmptiesTables == EndedEmpty => db = NoTables

\* a run on a database with rows ended at an emptiness check
C28_Witness ==
    /\ EndedEmpty /\ ingestion = 1
    /\ db_before.argo_profiles = <<StaleRow>> /\ db_before.agro_bots = BotsData
    /\ db = NoTables

------------------------------------------------------------------------------
(* Two run_full_ingestion executions of IndianOceanArgoProcessor on one        *)
(* database file.  Nothing in the code locks the database for the length of a *)
(* run: create_sqlite_schema opens its own connection and commits, and each    *)
(* to_sql call of save_to_sqlite is a transaction of its own, so the steps of  *)
(* two runs can alternate at these points.                                     *)

Runs == {1, 2}
OtherRun(r) == 3 - r

\* what the download step of a run can return
RunFiles == {<<>>, <<"in.nc">>, <<"min.nc">>, <<"max.nc">>, <<"in.nc", "min.nc">>}

InitConcurrent ==
    /\ ExtractIdle /\ DiscoverIdle /\ TransferIdle /\ RunIdle /\ FallbackIdle
    /\ serialized \in BOOLEAN
    /\ cfiles \in [Runs -> RunFiles]
    /\ cdata = [r \in Runs |-> <<>>]
    /\ cpc = [r \in Runs |-> "schema"]
    /\ cdb \in InitialDbs
    /\ creturned = [r \in Runs |-> <<>>]
    /\ cseen = [r \in Runs |-> <<>>]

\* a caller that serializes the runs starts one only when the other has not
\* started or has returned
MayStep(r) == serialized => cpc[OtherRun(r)] \in {"schema", "returned"}

\* the run returns success, the tables being d
CReturns(r, success, d) ==
    /\ creturned' = [creturned EXCEPT ![r] = <<success>>]
    /\ cseen' = [cseen EXCEPT ![r] = <<d.argo_profiles>>]
    /\ cpc' = [cpc EXCEPT ![r] = "returned"]

CGoes(r, next) ==
    /\ cpc' = [cpc EXCEPT ![r] = next]
    /\ UNCHANGED <<creturned, cseen>>

\* Step 1: create_sqlite_schema, which may raise (run returns False)
CSchema(r) ==
    /\ cpc[r] = "schema" /\ MayStep(r)
    /\ \/ cdb' = CreateSchema(cdb) /\ CGoes(r, "download")
       \/ \E d \in {cdb, CreateSchema(cdb)} : cdb' = d /\ CReturns(r, FALSE, d)
    /\ UNCHANGED <<serialized, cfiles, cdata>>
    /\ UNCHANGED <<xvars, dvars, tvars, rvars, fvars>>

\* Step 2: download_files_with_fallback; nothing downloaded returns False
CDownload(r) ==
    /\ cpc[r] = "download" /\ MayStep(r)
    /\ IF Empty(cfiles[r]) THEN CReturns(r, FALSE, cdb) ELSE CGoes(r, "process")
    /\ UNCHANGED <<serialized, cfiles, cdata, cdb>>
    /\ UNCHANGED <<xvars, dvars, tvars, rvars, fvars>>

\* Step 3: process_all_files; an empty frame returns False
CProcess(r) ==
    /\ cpc[r] = "process" /\ MayStep(r)
    /\ LET df == ProcessAllFiles("IO", [k \in DOMAIN cfiles[r] |->
                                          ContentOf(cfiles[r][k])])
       IN  /\ cdata' = [cdata EXCEPT ![r] = df]
           /\ IF Empty(df) THEN CReturns(r, FALSE, cdb) ELSE CGoes(r, "profiles")
    /\ UNCHANGED <<serialized, cfiles, cdb>>
    /\ UNCHANGED <<xvars, dvars, tvars, rvars, fvars>>

\* Step 4, df.to_sql("argo_profiles", if_exists="append"); a raise makes
\* save_to_sqlite and the run return False
CSaveProfiles(r) ==
    /\ cpc[r] = "profiles" /\ MayStep(r)
    /\ \/ /\ ~InsertFails(cdata[r])
          /\ cdb' = [cdb EXCEPT !.argo_profiles = @ \o cdata[r]]
          /\ CGoes(r, "conditions")
       \/ cdb' = cdb /\ CReturns(r, FALSE, cdb)
    /\ UNCHANGED <<serialized, cfiles, cdata>>
    /\ UNCHANGED <<xvars, dvars, tvars, rvars, fvars>>

\* ocean_df.to_sql("ocean_conditions", if_exists="append")
CSaveConditions(r) ==
    /\ cpc[r] = "conditions" /\ MayStep(r)
    /\ \/ /\ cdb' = [cdb EXCEPT
                        !.ocean_conditions = @ \o OceanConditions("IO", cdata[r])]
          /\ CGoes(r, "bots")
       \/ cdb' = cdb /\ CReturns(r, FALSE, cdb)
    /\ UNCHANGED <<serialized, cfiles, cdata>>
    /\ UNCHANGED <<xvars, dvars, tvars, rvars, fvars>>

\* bots_df.to_sql("agro_bots", if_exists="append"), refused when a bot_id is
\* already in the table; then return True
CSaveBots(r) ==
    /\ cpc[r] = "bots" /\ MayStep(r)
    /\ \/ /\ Range(cdb.agro_bots) \cap Range(BotsData) = {}
          /\ cdb' = [cdb EXCEPT !.agro_bots = @ \o BotsData]
          /\ CReturns(r, TRUE, cdb)
       \/ cdb' = cdb /\ CReturns(r, FALSE, cdb)
    /\ UNCHANGED <<serialized, cfiles, cdata>>
    /\ UNCHANGED <<xvars, dvars, tvars, rvars, fvars>>

NextConcurrent ==
    \E r \in Runs :
        \/ CSchema(r)
        \/ CDownload(r)
        \/ CProcess(r)
        \/ CSaveProfiles(r)
        \/ CSaveConditions(r)
        \/ CSaveBots(r)

SpecConcurrent == InitConcurrent /\ [][NextConcurrent]_vars

------------------------------------------------------------------------------
(* Claims on runs sharing a database *)

\* the run returned True while argo_profiles was not its processed_data
ReturnedOverOtherRows(r) ==
    /\ creturned[r] = <<TRUE>>
    /\ cseen[r] # <<cdata[r]>>

\* C25: runs are not isolated from each other.  Runs executed one after the
\* other never return True with argo_profiles different from the run's
\* dataset; when two runs interleave on one database such a state is
\* reachable (C25_Witness, C25_DroppedWitness).
C25_SerialRunsIsolated ==
    serialized => \A r \in Runs : ~ReturnedOverOtherRows(r)

\* interleaved, a run returned True over a table holding the rows of both
C25_Witness ==
    /\ ~serialized
    /\ \E r \in Runs :
          /\ ReturnedOverOtherRows(r)
          /\ cseen[r] \in {<<cdata[1] \o cdata[2]>>, <<cdata[2] \o cdata[1]>>}
          /\ cdata[OtherRun(r)] # <<>>

\* interleaved, a run returned True after the other run's schema step
\* dropped its rows
C25_DroppedWitness ==
    /\ ~serialized
    /\ \E r \in Runs :
          /\ creturned[r] = <<TRUE>> /\ cdata[r] # <<>> /\ cseen[r] = << <<>> >>

\* both of two serialized runs returned True
C25_SerialWitness ==
    /\ serialized /\ cdb.argo_profiles = cdata[2]
    /\ \A r \in Runs : creturned[r] = <<TRUE>> /\ cseen[r] = <<cdata[r]>>
    /\ cdata[1] # cdata[2]
=============================================================================
